---- MODULE Spec2Model ----
(***************************************************************************)
(* Model of the packet programs of titan-7: the eBPF/XDP/TC header         *)
(* rewriters and filters of network_shield_original.c, tcp_fingerprint.c   *)
(* (titan and lucid-empire), network_shield_v6.c and xdp_outbound.c, and   *)
(* of the user-space loader xdp_loader.c.                                  *)
(*                                                                         *)
(* A packet buffer [data, data_end) is a sequence of bytes; offsets are    *)
(* 0-based from data.  The programs are compiled for a little-endian BPF   *)
(* target: a __u16 load of the bytes b0 b1 gives b0 + 256*b1, and          *)
(* bpf_htons/bpf_ntohs swap the two bytes.  The reference checksums        *)
(* (Ref...) are the RFC 1071 sums over big-endian words and share no code  *)
(* with the operators that model the programs.                             *)
(***************************************************************************)
EXTENDS Integers, Sequences, FiniteSets, TLC

VARIABLES
    loaded,             \* the object file whose programs and maps are loaded
    phase,              \* "loaded" -> "configured" -> "packet"; "traffic"; "loader"
    persona_config,     \* network_shield_original.c: ARRAY map, key 0
    tcp_config_map,     \* tcp_fingerprint.c: HASH map, key 0 (empty at first)
    titan_config_map,   \* network_shield_v6.c: ARRAY map, key 0
    titan_os_profiles,  \* network_shield_v6.c: ARRAY map, keys 0..3
    stats,              \* network_shield_original.c: stats[0..3]
    stats_map,          \* tcp_fingerprint.c: stats_map[0]
    titan_stats_map,    \* network_shield_v6.c: struct titan_stats
    pkt_in,             \* the packet as it arrived
    prev,               \* the buffer before the latest program run
    pkt,                \* the buffer now
    hist,               \* the programs run on this packet so far, in order
    ret,                \* disposition returned by the latest run
    reads,              \* offsets the latest run dereferenced
    walk,               \* the option walks of the latest run
    percpu_stats,       \* network_shield_v6.c: titan_stats_map[0], one value per CPU
    invs,               \* packet invocations under way: program position, CPU
    snap,               \* one invocation reading its record, and the map elements
    ldr                 \* xdp_loader.c: the loader process and the interface

vars == << loaded, phase, persona_config, tcp_config_map, titan_config_map,
           titan_os_profiles, stats, stats_map, titan_stats_map,
           pkt_in, prev, pkt, hist, ret, reads, walk, percpu_stats, invs,
           snap, ldr >>

(***************************************************************************)
(* Bounds of the model.                                                    *)
(***************************************************************************)
MaxRuns == 2
MaxInvocations == 3
NumCpus == 2
MaxUpdates == 2
MaxSignals == 2

(***************************************************************************)
(* Machine arithmetic and byte access.                                     *)
(***************************************************************************)
W16 == 2^16

\* a 32-bit value is the pair << upper 16 bits, lower 16 bits >>
\* variant: the two 16-bit halves are added without the carry between them
Add32_without_carry(a, b) == << (a[1] + b[1]) % W16, (a[2] + b[2]) % W16 >>

U32(n) == << (n \div W16) % W16, n % W16 >>
Add32(a, b) ==                        \* a + b modulo 2^32
    LET lo == a[2] + b[2]
    IN  << (a[1] + b[1] + lo \div W16) % W16, lo % W16 >>
Carry32(a, b) == (a[1] + b[1] + (a[2] + b[2]) \div W16) \div W16

At(p, o) == p[o + 1]
Put(p, o, b) == [p EXCEPT ![o + 1] = b]
Rng(o, n) == o .. (o + n - 1)

\* __u16 load / store through a pointer on the little-endian target
Load16(p, o) == At(p, o) + 256 * At(p, o + 1)
Store16(p, o, v) == Put(Put(p, o, v % 256), o + 1, (v \div 256) % 256)

\* __u32 load / store through a pointer on the little-endian target
Load32(p, o) == << Load16(p, o + 2), Load16(p, o) >>
Store32(p, o, v) == Store16(Store16(p, o, v[2]), o + 2, v[1])

bpf_htons(x) == ((x % 256) * 256) + ((x \div 256) % 256)
bpf_ntohs(x) == ((x % 256) * 256) + ((x \div 256) % 256)
bpf_htonl(x) == << bpf_htons(x[2]), bpf_htons(x[1]) >>
bpf_ntohl(x) == << bpf_htons(x[2]), bpf_htons(x[1]) >>

Not16(x) == (W16 - 1) - (x % W16)
Not32(x) == << Not16(x[1]), Not16(x[2]) >>

(***************************************************************************)
(* Header layout (linux/if_ether.h, linux/ip.h, linux/tcp.h).              *)
(***************************************************************************)
ETH_HLEN == 14
ETH_P_IP == 2048
IPPROTO_TCP == 6
IPPROTO_UDP == 17
SIZEOF_IPHDR == 20
SIZEOF_TCPHDR == 20

IPH == ETH_HLEN                       \* struct iphdr *iph = (void *)(eth + 1)
OFF_H_PROTO == 12                     \* offsetof(struct ethhdr, h_proto)
OFF_TOT_LEN == IPH + 2
OFF_ID == IPH + 4
OFF_TTL == IPH + 8
OFF_PROTOCOL == IPH + 9
OFF_IP_CHECK == IPH + 10
OFF_SADDR == IPH + 12
OFF_DADDR == IPH + 16

ihl(p) == At(p, IPH) % 16
TCPH(p) == IPH + ihl(p) * 4           \* (void *)iph + (iph->ihl * 4)
doff(p, t) == At(p, t + 12) \div 16
syn(p, t) == (At(p, t + 13) \div 2) % 2 = 1
ack(p, t) == (At(p, t + 13) \div 16) % 2 = 1


\* a BPF map is a function from its keys to its values; a lookup returns a
\* pointer to the value, modelled as << value >>, or NULL
Null == << >>
bpf_map_lookup_elem(map, key) ==
    IF key \in DOMAIN map THEN << map[key] >> ELSE Null
XDP_PASS == "XDP_PASS"
TC_ACT_OK == "TC_ACT_OK"

(***************************************************************************)
(* Reference checksums (RFC 791 / RFC 793 / RFC 1071): a full recompute    *)
(* over big-endian 16-bit words with the checksum field taken as zero.     *)
(***************************************************************************)
BE16(p, o) == At(p, o) * 256 + At(p, o + 1)

RECURSIVE RefSum(_, _, _)
RefSum(p, o, n) ==                    \* n big-endian words from offset o
    IF n = 0 THEN 0
    ELSE IF n = 1 THEN BE16(p, o)
    ELSE RefSum(p, o, n \div 2) + RefSum(p, o + 2 * (n \div 2), n - n \div 2)

RECURSIVE RefFold(_)
RefFold(s) == IF s < W16 THEN s ELSE RefFold((s % W16) + (s \div W16))

\* IPv4 header checksum over the declared header length IHL*4
RefIpCheck(p) ==
    Not16(RefFold(RefSum(p, IPH, ihl(p) * 2) - BE16(p, OFF_IP_CHECK)))

\* TCP checksum over the pseudo-header and the whole segment [TCPH, data_end)
RefTcpCheck(p) ==
    LET t      == TCPH(p)
        seglen == Len(p) - t
        odd    == IF seglen % 2 = 1 THEN At(p, Len(p) - 1) * 256 ELSE 0
        pseudo == BE16(p, OFF_SADDR) + BE16(p, OFF_SADDR + 2)
                  + BE16(p, OFF_DADDR) + BE16(p, OFF_DADDR + 2)
                  + IPPROTO_TCP + seglen
    IN  Not16(RefFold(pseudo + RefSum(p, t, seglen \div 2) + odd
                      - BE16(p, t + 16)))

IpCheckValid(p) == BE16(p, OFF_IP_CHECK) = RefIpCheck(p)
TcpCheckValid(p) == BE16(p, TCPH(p) + 16) = RefTcpCheck(p)

PutBE16(p, o, v) == Put(Put(p, o, (v \div 256) % 256), o + 1, v % 256)

(***************************************************************************)
(* The packets that arrive.  A packet is described by the fields the       *)
(* programs look at and is laid out as Ethernet + IPv4 (+ IP options) +    *)
(* TCP-shaped transport bytes (+ TCP options) + payload, with the IPv4 and *)
(* TCP checksums the sending stack computed, then cut to `cut` bytes when  *)
(* the buffer is shorter than the frame.                                   *)
(***************************************************************************)
Fill(n, b) == [ i \in 1..n |-> b ]      \* n bytes b

Frame(s) ==
    LET ipopts == Fill((s.ihl - 5) * 4, s.ipfill)
        tcplen == SIZEOF_TCPHDR + Len(s.opts) + Len(s.pay)
        totlen == s.ihl * 4 + tcplen
        eth    == << 2, 0, 0, 0, 0, 1,  2, 0, 0, 0, 0, 2,
                     s.eth \div 256, s.eth % 256 >>
        ip     == << 64 + s.ihl, 0, totlen \div 256, totlen % 256,
                     18, 52, 64, 0, s.ttl, s.proto, 0, 0,
                     10, 0, 0, 1, 93, 184, 216, 34 >> \o ipopts
        tcp    == << s.sport \div 256, s.sport % 256, s.dport \div 256, s.dport % 256,
                     0, 0, 0, 1, 0, 0, 0, 0,
                     (5 + Len(s.opts) \div 4) * 16, s.flags,
                     s.win \div 256, s.win % 256, 0, 0, 0, 0 >>
                  \o s.opts \o s.pay
        raw    == eth \o ip \o tcp
        p1     == PutBE16(raw, OFF_IP_CHECK, RefIpCheck(raw))
    IN  IF s.proto = IPPROTO_TCP
        THEN PutBE16(p1, TCPH(p1) + 16, RefTcpCheck(p1))
        ELSE p1

Packet(s) ==
    LET f == Frame(s)
    IN  IF s.cut < Len(f) THEN SubSeq(f, 1, s.cut) ELSE f

FLAG_SYN == 2^1                       \* tcph->syn
FLAG_ACK == 2^4                       \* tcph->ack
Uncut == 2^10                         \* no cut: the buffer holds the whole frame

\* TCP option sequences carried by the packets (each a multiple of 4 bytes)
OptSeqs ==
    { << 2, 4, 5, 120 >>,                                 \* MSS 1400
      << 2, 4, 5, 180 >>,                                 \* MSS 1460
      << 2, 4, 5, 120, 1, 3, 3, 7 >>,                     \* MSS, NOP, WSCALE 7
      << 3, 3, 7, 1, 2, 4, 5, 120 >>,                     \* WSCALE 7, NOP, MSS
      << 1, 1, 8, 10, 0, 0, 0, 9, 0, 0, 0, 5 >>,          \* NOP, NOP, TS
      << 8, 10, 255, 255, 255, 255, 1, 2, 3, 4, 0, 0 >>,  \* TS (max), EOL
      << 2, 4, 5, 120, 4, 2, 8, 10, 0, 1, 0, 0,           \* Linux SYN
         0, 0, 0, 0, 1, 3, 3, 7 >>,
      << 1, 2, 4, 5, 120, 0, 0, 0 >>,                     \* NOP, MSS (odd offset)
      << 1, 3, 3, 7 >>,                                   \* NOP, WSCALE (odd offset)
      << 1, 1, 1, 3 >>,                                   \* kind in last byte
      << 5, 0, 1, 1 >>,                                   \* length 0
      << 5, 200, 1, 1 >>,                                 \* overruns the region
      << 3, 3, 2, 3, 3, 5, 0, 0 >>,                       \* two WSCALE options
      Fill(40, 1) }                                       \* 40 No-Ops

BasePkt ==
    [ eth |-> ETH_P_IP, ihl |-> 5, ipfill |-> 7, ttl |-> 64,
      proto |-> IPPROTO_TCP, sport |-> 49153, dport |-> 443,
      flags |-> FLAG_SYN, win |-> 8192,
      opts |-> << >>, pay |-> << >>, cut |-> Uncut ]

PacketSpecs ==
    \* every IHL, several TTLs
    { [BasePkt EXCEPT !.ihl = h, !.ttl = t] :
          h \in 5..15, t \in {64, 128, 255} }
    \cup
    \* other protocols
    { [BasePkt EXCEPT !.proto = pr, !.ihl = h, !.ttl = t] :
          pr \in {IPPROTO_UDP, 1}, h \in {5, 6}, t \in {64, 128} }
    \cup
    \* flags, windows, payload
    { [BasePkt EXCEPT !.flags = f, !.win = w, !.ttl = t, !.pay = d] :
          f \in {FLAG_SYN, FLAG_SYN + FLAG_ACK, FLAG_ACK},
          w \in {0, 8192, 29200, 65535}, t \in {64, 128},
          d \in {<< >>, << 222, 173 >>} }
    \cup
    \* SYN windows around the carries of the incremental update
    { [BasePkt EXCEPT !.win = w, !.pay = d] :
          w \in {1, 255, 256, 32768, 36335, 36336, 65534},
          d \in {<< >>, << 222, 173, 190 >>} }
    \cup
    \* TCP options
    { [BasePkt EXCEPT !.opts = o, !.flags = f, !.ihl = h, !.pay = d] :
          o \in OptSeqs, f \in {FLAG_SYN, FLAG_SYN + FLAG_ACK, FLAG_ACK},
          h \in {5, 6},
          d \in {<< >>, << 222, 173, 190 >>} }
    \cup
    \* short buffers
    { [BasePkt EXCEPT !.cut = c, !.ihl = h] :
          c \in {0, 1, 13, 14, 20, 33, 34, 40, 53, 57}, h \in {5, 6} }
    \cup
    \* other Ethertypes
    { [BasePkt EXCEPT !.eth = e, !.cut = c] :
          e \in {34525, 2054}, c \in {13, 14, 33, Uncut} }
    \cup
    \* UDP datagrams: DNS, QUIC, STUN/TURN ports, whole and cut inside the UDP header
    { [BasePkt EXCEPT !.proto = IPPROTO_UDP, !.sport = sp, !.dport = dp,
                      !.ihl = h, !.cut = c] :
          sp \in {49153, 3478, 5349}, dp \in {53, 443, 3478, 5349},
          h \in {5, 6}, c \in {41, 42, Uncut} }
    \cup
    \* long IPv4 headers in front of TCP options
    { [BasePkt EXCEPT !.ihl = h, !.ipfill = b,
                      !.opts = << 2, 4, 5, 120, 4, 2, 8, 10, 0, 1, 0, 0,
                                  0, 0, 0, 0, 1, 3, 3, 7 >>] :
          h \in {8, 15}, b \in {7, 97} }

\* segments whose data offset field is below 5
ShortDoffPackets ==
    { LET f == Packet([BasePkt EXCEPT !.pay = << 8, 4, 1, 1 >>])
      IN  Put(f, TCPH(f) + 12, d * 16) : d \in {0, 4} }

Packets == { Packet(s) : s \in PacketSpecs } \cup ShortDoffPackets

(***************************************************************************)
(* Result of one program run.                                              *)
(***************************************************************************)
NoWalk == [ acc |-> {}, iters |-> 0, stale |-> FALSE ]

Result(p, r, rd, st, wk) ==
    [ pkt |-> p, ret |-> r, reads |-> rd, stats |-> st, walk |-> wk ]

(***************************************************************************)
(* network_shield_original.c                                               *)
(***************************************************************************)
PERSONA_LINUX == 0
PERSONA_WINDOWS == 1
PERSONA_MACOS == 2

signatures ==
    << [ ttl |-> 64,  tcp_window |-> 29200, tcp_mss |-> 1460,
         tcp_sack_permitted |-> 1, tcp_timestamps |-> 1, tcp_window_scale |-> 7 ],
       [ ttl |-> 128, tcp_window |-> 65535, tcp_mss |-> 1460,
         tcp_sack_permitted |-> 1, tcp_timestamps |-> 0, tcp_window_scale |-> 8 ],
       [ ttl |-> 64,  tcp_window |-> 65535, tcp_mss |-> 1460,
         tcp_sack_permitted |-> 1, tcp_timestamps |-> 1, tcp_window_scale |-> 6 ] >>

STATS_PACKETS_TOTAL == 0
STATS_PACKETS_MODIFIED == 1
STATS_PACKETS_TCP == 2
STATS_PACKETS_UDP == 3

\* update_stats(key): the per-CPU lookup succeeds for the four keys
ns_update_stats(st, key) ==
    IF key \in DOMAIN st THEN [st EXCEPT ![key] = @ + 1] ELSE st

\* the unrolled loop of ip_checksum: ptr[i] for i < 10 while i * 2 < len
RECURSIVE ip_checksum_sum(_, _, _)
ip_checksum_sum(p, i, len) ==
    IF i = 10 THEN 0
    ELSE (IF i * 2 < len THEN Load16(p, IPH + 2 * i) ELSE 0)
         + ip_checksum_sum(p, i + 1, len)

RECURSIVE ns_fold(_)
ns_fold(sum) ==                       \* while (sum >> 16) sum = ...
    IF sum \div W16 # 0 THEN ns_fold((sum % W16) + (sum \div W16)) ELSE sum

\* ip_checksum(iph): zeroes iph->check, returns the __u16 ~sum
ip_checksum(p) ==
    LET q   == Store16(p, OFF_IP_CHECK, 0)
        len == ihl(q) * 4
        sum == ns_fold(ip_checksum_sum(q, 0, len))
    IN  [ pkt |-> q, val |-> Not16(sum % W16) ]

\* update_tcp_checksum(tcph, old_val, new_val)
\* variant: the old value is added as it is, not complemented (HC' = ~(~HC + m + m'))
ns_update_tcp_checksum_uncomplemented(p, t, old_val, new_val) ==
    LET s0 == Not16(bpf_ntohs(Load16(p, t + 16)))
        s1 == s0 + old_val
        s2 == s1 + new_val
        s3 == ns_fold(s2)
    IN  Store16(p, t + 16, bpf_htons(Not16(s3 % W16)))

ns_update_tcp_checksum(p, t, old_val, new_val) ==
    LET s0 == Not16(bpf_ntohs(Load16(p, t + 16)))
        s1 == s0 + Not16(old_val)
        s2 == s1 + new_val
        s3 == ns_fold(s2)
    IN  Store16(p, t + 16, bpf_htons(Not16(s3 % W16)))

\* variant: a persona above PERSONA_MACOS selects PERSONA_WINDOWS
ns_persona_windows_fallback(map) ==
    LET persona_ptr == bpf_map_lookup_elem(map, 0)
        persona == IF persona_ptr # Null THEN persona_ptr[1] ELSE PERSONA_LINUX
    IN  IF persona > PERSONA_MACOS THEN PERSONA_WINDOWS ELSE persona

\* persona lookup and bounds check shared by both programs
ns_persona(map) ==
    LET persona_ptr == bpf_map_lookup_elem(map, 0)
        persona == IF persona_ptr # Null THEN persona_ptr[1] ELSE PERSONA_LINUX
    IN  IF persona > PERSONA_MACOS THEN PERSONA_LINUX ELSE persona

\* variant: the rewrite also clears the identification field before the checksum
ns_rewrite_ttl_clearing_id(p, sig) ==
    LET q == Store16(Put(p, OFF_TTL, sig.ttl), OFF_ID, 0)
        c == ip_checksum(q)
    IN  Store16(c.pkt, OFF_IP_CHECK, c.val)

\* if (iph->ttl != sig->ttl) { iph->ttl = ...; iph->check = ip_checksum(iph); }
ns_rewrite_ttl(p, sig) ==
    LET q == Put(p, OFF_TTL, sig.ttl)
        c == ip_checksum(q)
    IN  Store16(c.pkt, OFF_IP_CHECK, c.val)

network_shield_xdp(p, pc, st) ==
    IF ETH_HLEN > Len(p) THEN Result(p, XDP_PASS, {}, st, NoWalk)
    ELSE IF Load16(p, OFF_H_PROTO) # bpf_htons(ETH_P_IP)
    THEN Result(p, XDP_PASS, Rng(OFF_H_PROTO, 2), st, NoWalk)
    ELSE IF IPH + SIZEOF_IPHDR > Len(p)
    THEN Result(p, XDP_PASS, Rng(OFF_H_PROTO, 2), st, NoWalk)
    ELSE
    LET st1   == ns_update_stats(st, STATS_PACKETS_TOTAL)
        sig   == signatures[ns_persona(pc) + 1]
        ttlne == At(p, OFF_TTL) # sig.ttl
        p1    == IF ttlne THEN ns_rewrite_ttl(p, sig) ELSE p
        st2   == IF ttlne THEN ns_update_stats(st1, STATS_PACKETS_MODIFIED) ELSE st1
        rd1   == Rng(OFF_H_PROTO, 2) \cup {OFF_TTL, OFF_PROTOCOL}
                 \cup (IF ttlne THEN Rng(IPH, SIZEOF_IPHDR) ELSE {})
        t     == TCPH(p1)
    IN  IF At(p1, OFF_PROTOCOL) = IPPROTO_TCP
        THEN LET st3 == ns_update_stats(st2, STATS_PACKETS_TCP)
                 rd2 == rd1 \cup {IPH}
             IN  IF t + SIZEOF_TCPHDR > Len(p1)
                 THEN Result(p1, XDP_PASS, rd2, st3, NoWalk)
                 ELSE IF syn(p1, t) /\ ~ack(p1, t)
                 THEN LET old_window == Load16(p1, t + 14)
                          new_window == bpf_htons(sig.tcp_window)
                          rd3 == rd2 \cup {t + 13} \cup Rng(t + 14, 2)
                      IN  IF old_window # new_window
                          THEN Result(ns_update_tcp_checksum(
                                          Store16(p1, t + 14, new_window), t,
                                          bpf_ntohs(old_window),
                                          bpf_ntohs(new_window)),
                                      XDP_PASS, rd3 \cup Rng(t + 16, 2),
                                      ns_update_stats(st3, STATS_PACKETS_MODIFIED),
                                      NoWalk)
                          ELSE Result(p1, XDP_PASS, rd3, st3, NoWalk)
                 ELSE Result(p1, XDP_PASS, rd2 \cup {t + 13}, st3, NoWalk)
        ELSE IF At(p1, OFF_PROTOCOL) = IPPROTO_UDP
        THEN Result(p1, XDP_PASS, rd1, ns_update_stats(st2, STATS_PACKETS_UDP), NoWalk)
        ELSE Result(p1, XDP_PASS, rd1, st2, NoWalk)

network_shield_tc(p, pc, st) ==
    IF ETH_HLEN > Len(p) THEN Result(p, TC_ACT_OK, {}, st, NoWalk)
    ELSE IF Load16(p, OFF_H_PROTO) # bpf_htons(ETH_P_IP)
    THEN Result(p, TC_ACT_OK, Rng(OFF_H_PROTO, 2), st, NoWalk)
    ELSE IF IPH + SIZEOF_IPHDR > Len(p)
    THEN Result(p, TC_ACT_OK, Rng(OFF_H_PROTO, 2), st, NoWalk)
    ELSE
    LET sig   == signatures[ns_persona(pc) + 1]
        ttlne == At(p, OFF_TTL) # sig.ttl
    IN  Result(IF ttlne THEN ns_rewrite_ttl(p, sig) ELSE p, TC_ACT_OK,
               Rng(OFF_H_PROTO, 2) \cup {OFF_TTL}
                 \cup (IF ttlne THEN Rng(IPH, SIZEOF_IPHDR) ELSE {}),
               st, NoWalk)

(***************************************************************************)
(* Kernel checksum helpers called by the TC programs (net/core/filter.c,   *)
(* include/net/checksum.h).  They work on the raw 16-bit value stored at   *)
(* the offset and on from/to as the caller passes them.                    *)
(***************************************************************************)
csum16_add(csum, addend) ==
    LET res == (csum + addend) % W16
    IN  (res + (IF res < addend THEN 1 ELSE 0)) % W16
csum16_sub(csum, addend) == csum16_add(csum, Not16(addend))
csum_replace2(sum, old, new) ==
    Not16(csum16_add(csum16_sub(Not16(sum), old), new))

\* __wsum arithmetic on 32-bit values: res += addend; return res + (res < addend)
csum_add(csum, addend) ==
    Add32(Add32(csum, addend), U32(Carry32(csum, addend)))
csum_sub(csum, addend) == csum_add(csum, Not32(addend))
csum_fold(csum) ==
    LET s1 == csum[2] + csum[1]
        s2 == (s1 % W16) + (s1 \div W16)
    IN  Not16(s2)
csum_replace4(sum, from, to) ==
    csum_fold(csum_add(csum_sub(Not32(U32(sum)), U32(from)), U32(to)))
csum_replace_by_diff(sum, diff) ==
    csum_fold(csum_add(U32(diff), Not32(U32(sum))))

\* bpf_l3_csum_replace(skb, offset, from, to, flags): flags is the field size
bpf_l3_csum_replace(p, offset, from, to, flags) ==
    IF offset % 2 = 1 \/ offset + 2 > Len(p) THEN p
    ELSE IF flags = 0
    THEN (IF from # 0 THEN p
          ELSE Store16(p, offset, csum_replace_by_diff(Load16(p, offset), to)))
    ELSE IF flags = 2
    THEN Store16(p, offset, csum_replace2(Load16(p, offset), from % W16, to % W16))
    ELSE p

\* bpf_l4_csum_replace(skb, offset, from, to, 2): no pseudo-header flag
bpf_l4_csum_replace(p, offset, from, to) ==
    IF offset % 2 = 1 \/ offset + 2 > Len(p) THEN p
    ELSE Store16(p, offset, csum_replace4(Load16(p, offset), from % W16, to % W16))

(***************************************************************************)
(* titan/ebpf/tcp_fingerprint.c                                            *)
(***************************************************************************)
\* variant: the built-in profile carries TTL 64 and window 29200
get_windows_profile_as_linux ==
    [ ttl |-> 64, window_size |-> 29200, mss |-> 1460, window_scale |-> 8,
      sack_permitted |-> 1, timestamps |-> 0 ]

\* get_windows_profile(&default_config): timestamp_offset is not set
get_windows_profile ==
    [ ttl |-> 128, window_size |-> 65535, mss |-> 1460, window_scale |-> 8,
      sack_permitted |-> 1, timestamps |-> 0 ]

RECURSIVE csum_fold_helper_loop(_, _)
csum_fold_helper_loop(csum, i) ==
    IF i = 4 THEN csum
    ELSE csum_fold_helper_loop(
             IF csum \div W16 # 0 THEN (csum % W16) + (csum \div W16) ELSE csum,
             i + 1)

csum_fold_helper(csum) == Not16(csum_fold_helper_loop(csum, 0) % W16)

\* for (i = 0; i < (int)sizeof(*iph) >> 1; i++) csum += *ptr++;
RECURSIVE update_ip_checksum_sum(_, _)
update_ip_checksum_sum(p, i) ==
    IF i = SIZEOF_IPHDR \div 2 THEN 0
    ELSE Load16(p, IPH + 2 * i) + update_ip_checksum_sum(p, i + 1)

update_ip_checksum(p) ==
    LET q == Store16(p, OFF_IP_CHECK, 0)
    IN  Store16(q, OFF_IP_CHECK,
                csum_fold_helper(update_ip_checksum_sum(q, 0)))

\* the unrolled loop over the first 20 bytes of the TCP header
RECURSIVE tf_tcp_sum(_, _, _)
tf_tcp_sum(p, t, i) ==
    IF i = 10 \/ t + 2 * i + 2 > Len(p) THEN 0
    ELSE Load16(p, t + 2 * i) + tf_tcp_sum(p, t, i + 1)

\* update_tcp_checksum(iph, tcph, data_end)
tf_update_tcp_checksum(p, t) ==
    LET tcp_len == bpf_ntohs(Load16(p, OFF_TOT_LEN)) - ihl(p) * 4
        pseudo  == Load16(p, OFF_SADDR + 2) + Load16(p, OFF_SADDR)
                   + Load16(p, OFF_DADDR + 2) + Load16(p, OFF_DADDR)
                   + bpf_htons(IPPROTO_TCP) + bpf_htons(tcp_len % W16)
        q       == Store16(p, t + 16, 0)
    IN  Store16(q, t + 16,
                csum_fold_helper(pseudo + tf_tcp_sum(q, t, 0)))

\* a byte read through a packet pointer; beyond data_end the value is whatever
\* lies behind the buffer
RdB(p, o, oob) == IF o < Len(p) THEN At(p, o) ELSE oob

\* timestamp walk: for (i = 0; i < 40 && opts + i < opts_end; i++) under
\* #pragma unroll: 40 copies of the loop body, each skipped once the loop has
\* been left (s.run is FALSE); copies(n, s) runs n of them from state s
tf_ts_walk(p, t, i, w, off, oob) ==
    LET optlen == doff(p, t) * 4 - 20
        body(s) ==
            LET o  == t + 20 + s.i
                w1 == [ s.walk EXCEPT !.acc = @ \cup {o}, !.iters = @ + 1 ]
            IN  IF ~(s.i < 40 /\ s.i < optlen) THEN [ s EXCEPT !.run = FALSE ]
                ELSE IF At(p, o) = 0 THEN [ s EXCEPT !.walk = w1, !.run = FALSE ]
                ELSE IF At(p, o) = 1 THEN [ s EXCEPT !.walk = w1, !.i = @ + 1 ]
                ELSE IF At(p, o) = 8 /\ s.i + 9 < optlen
                THEN (IF o + 2 + 4 <= Len(p)
                      THEN [ s EXCEPT
                               !.pkt = Store32(p, o + 2,
                                         bpf_htonl(Add32(bpf_ntohl(Load32(p, o + 2)), off))),
                               !.walk = [ w1 EXCEPT !.acc = @ \cup Rng(o + 2, 4) ],
                               !.run = FALSE ]
                      ELSE [ s EXCEPT !.walk = w1, !.run = FALSE ])
                ELSE LET opt_len == RdB(p, o + 1, oob)
                         w2 == [ w1 EXCEPT !.acc = @ \cup {o + 1} ]
                     IN  IF opt_len < 2
                         THEN [ s EXCEPT !.walk = w2, !.run = FALSE ]
                         ELSE [ s EXCEPT !.walk = w2, !.i = @ + (opt_len - 1) + 1 ]
        RECURSIVE copies(_, _)
        copies(n, s) ==
            IF ~s.run THEN s
            ELSE IF n = 1 THEN body(s)
            ELSE LET m == copies(n \div 2, s) IN copies(n - n \div 2, m)
        r == copies(40, [ pkt |-> p, walk |-> w, i |-> i, run |-> TRUE ])
    IN  [ pkt |-> r.pkt, walk |-> r.walk ]

\* variant: the configured value is stored whatever the advertised value is
tf_mss_walk_always_set(p, t, j, w, mss, oob) ==
    LET optlen == doff(p, t) * 4 - 20
        body(s) ==
            LET o  == t + 20 + s.i
                w1 == [ s.walk EXCEPT !.acc = @ \cup {o}, !.iters = @ + 1 ]
            IN  IF ~(s.i < 40 /\ s.i < optlen) THEN [ s EXCEPT !.run = FALSE ]
                ELSE IF At(p, o) = 0 THEN [ s EXCEPT !.walk = w1, !.run = FALSE ]
                ELSE IF At(p, o) = 1 THEN [ s EXCEPT !.walk = w1, !.i = @ + 1 ]
                ELSE IF At(p, o) = 2 /\ s.i + 3 < optlen
                THEN [ s EXCEPT !.pkt = Store16(p, o + 2, bpf_htons(mss)),
                                !.walk = [ w1 EXCEPT !.acc = @ \cup Rng(o + 2, 2) ],
                                !.run = FALSE ]
                ELSE LET opt_len2 == RdB(p, o + 1, oob)
                         w2 == [ w1 EXCEPT !.acc = @ \cup {o + 1} ]
                     IN  IF opt_len2 < 2
                         THEN [ s EXCEPT !.walk = w2, !.run = FALSE ]
                         ELSE [ s EXCEPT !.walk = w2, !.i = @ + (opt_len2 - 1) + 1 ]
        RECURSIVE copies(_, _)
        copies(n, s) ==
            IF ~s.run THEN s
            ELSE IF n = 1 THEN body(s)
            ELSE LET m == copies(n \div 2, s) IN copies(n - n \div 2, m)
        r == copies(40, [ pkt |-> p, walk |-> w, i |-> j, run |-> TRUE ])
    IN  [ pkt |-> r.pkt, walk |-> r.walk ]

\* variant: the loop runs while j <= 40 && opts2 + j <= opts2_end
tf_mss_walk_one_more(p, t, j, w, mss, oob) ==
    LET optlen == doff(p, t) * 4 - 20
        body(s) ==
            LET o  == t + 20 + s.i
                w1 == [ s.walk EXCEPT !.acc = @ \cup {o}, !.iters = @ + 1 ]
            IN  IF ~(s.i <= 40 /\ s.i <= optlen) THEN [ s EXCEPT !.run = FALSE ]
                ELSE IF RdB(p, o, oob) = 0 THEN [ s EXCEPT !.walk = w1, !.run = FALSE ]
                ELSE IF RdB(p, o, oob) = 1 THEN [ s EXCEPT !.walk = w1, !.i = @ + 1 ]
                ELSE IF RdB(p, o, oob) = 2 /\ s.i + 3 < optlen
                THEN [ s EXCEPT !.pkt = IF bpf_ntohs(Load16(p, o + 2)) < mss
                                        THEN Store16(p, o + 2, bpf_htons(mss))
                                        ELSE p,
                                !.walk = [ w1 EXCEPT !.acc = @ \cup Rng(o + 2, 2) ],
                                !.run = FALSE ]
                ELSE LET opt_len2 == RdB(p, o + 1, oob)
                         w2 == [ w1 EXCEPT !.acc = @ \cup {o + 1} ]
                     IN  IF opt_len2 < 2
                         THEN [ s EXCEPT !.walk = w2, !.run = FALSE ]
                         ELSE [ s EXCEPT !.walk = w2, !.i = @ + (opt_len2 - 1) + 1 ]
        RECURSIVE copies(_, _)
        copies(n, s) ==
            IF ~s.run THEN s
            ELSE IF n = 1 THEN body(s)
            ELSE LET m == copies(n \div 2, s) IN copies(n - n \div 2, m)
        r == copies(41, [ pkt |-> p, walk |-> w, i |-> j, run |-> TRUE ])
    IN  [ pkt |-> r.pkt, walk |-> r.walk ]

\* MSS walk: for (j = 0; j < 40 && opts2 + j < opts2_end; j++), unrolled likewise
tf_mss_walk(p, t, j, w, mss, oob) ==
    LET optlen == doff(p, t) * 4 - 20
        body(s) ==
            LET o  == t + 20 + s.i
                w1 == [ s.walk EXCEPT !.acc = @ \cup {o}, !.iters = @ + 1 ]
            IN  IF ~(s.i < 40 /\ s.i < optlen) THEN [ s EXCEPT !.run = FALSE ]
                ELSE IF At(p, o) = 0 THEN [ s EXCEPT !.walk = w1, !.run = FALSE ]
                ELSE IF At(p, o) = 1 THEN [ s EXCEPT !.walk = w1, !.i = @ + 1 ]
                ELSE IF At(p, o) = 2 /\ s.i + 3 < optlen
                THEN (IF o + 2 + 2 <= Len(p)
                      THEN [ s EXCEPT
                               !.pkt = IF bpf_ntohs(Load16(p, o + 2)) < mss
                                       THEN Store16(p, o + 2, bpf_htons(mss))
                                       ELSE p,
                               !.walk = [ w1 EXCEPT !.acc = @ \cup Rng(o + 2, 2) ],
                               !.run = FALSE ]
                      ELSE [ s EXCEPT !.walk = w1, !.run = FALSE ])
                ELSE LET opt_len2 == RdB(p, o + 1, oob)
                         w2 == [ w1 EXCEPT !.acc = @ \cup {o + 1} ]
                     IN  IF opt_len2 < 2
                         THEN [ s EXCEPT !.walk = w2, !.run = FALSE ]
                         ELSE [ s EXCEPT !.walk = w2, !.i = @ + (opt_len2 - 1) + 1 ]
        RECURSIVE copies(_, _)
        copies(n, s) ==
            IF ~s.run THEN s
            ELSE IF n = 1 THEN body(s)
            ELSE LET m == copies(n \div 2, s) IN copies(n - n \div 2, m)
        r == copies(40, [ pkt |-> p, walk |-> w, i |-> j, run |-> TRUE ])
    IN  [ pkt |-> r.pkt, walk |-> r.walk ]

\* the else branch of tcp_fingerprint_xdp: "Apply custom configuration"
tf_apply_config(p, t, config, oob) ==
    LET p1 == Put(p, OFF_TTL, config.ttl)
        p2 == IF syn(p1, t) /\ ~ack(p1, t)
              THEN Store16(p1, t + 14, bpf_htons(config.window_size))
              ELSE p1
        hl == doff(p2, t) * 4
        r3 == IF config.timestamp_offset # U32(0) /\ hl > 20 /\ t + hl <= Len(p2)
              THEN tf_ts_walk(p2, t, 0, NoWalk, config.timestamp_offset, oob)
              ELSE [ pkt |-> p2, walk |-> NoWalk ]
        p3 == r3.pkt
        hl2 == doff(p3, t) * 4
    IN  IF syn(p3, t) /\ config.mss > 0 /\ hl2 > 20 /\ t + hl2 <= Len(p3)
        THEN LET r4 == tf_mss_walk(p3, t, 0, [NoWalk EXCEPT !.acc = r3.walk.acc],
                                   config.mss, oob)
             IN  [ pkt |-> r4.pkt,
                   walk |-> [ r4.walk EXCEPT
                                !.iters = IF @ > r3.walk.iters
                                          THEN @ ELSE r3.walk.iters ] ]
        ELSE r3

tcp_fingerprint_xdp(p, map, st, oob) ==
    IF ETH_HLEN > Len(p) THEN Result(p, XDP_PASS, {}, st, NoWalk)
    ELSE IF Load16(p, OFF_H_PROTO) # bpf_htons(ETH_P_IP)
    THEN Result(p, XDP_PASS, Rng(OFF_H_PROTO, 2), st, NoWalk)
    ELSE IF IPH + SIZEOF_IPHDR > Len(p)
    THEN Result(p, XDP_PASS, Rng(OFF_H_PROTO, 2), st, NoWalk)
    ELSE IF At(p, OFF_PROTOCOL) # IPPROTO_TCP
    THEN Result(p, XDP_PASS, Rng(OFF_H_PROTO, 2) \cup {OFF_PROTOCOL}, st, NoWalk)
    ELSE IF TCPH(p) + SIZEOF_TCPHDR > Len(p)
    THEN Result(p, XDP_PASS, Rng(OFF_H_PROTO, 2) \cup {OFF_PROTOCOL, IPH}, st, NoWalk)
    ELSE
    LET t  == TCPH(p)
        config == bpf_map_lookup_elem(map, 0)
        r  == IF config = Null
              THEN [ pkt |-> LET p1 == Put(p, OFF_TTL, get_windows_profile.ttl)
                             IN  IF syn(p1, t) /\ ~ack(p1, t)
                                 THEN Store16(p1, t + 14,
                                              bpf_htons(get_windows_profile.window_size))
                                 ELSE p1,
                     walk |-> NoWalk ]
              ELSE tf_apply_config(p, t, config[1], oob)
        p5 == tf_update_tcp_checksum(update_ip_checksum(r.pkt), t)
    IN  Result(p5, XDP_PASS,
               Rng(OFF_H_PROTO, 2) \cup Rng(IPH, SIZEOF_IPHDR)
                 \cup Rng(t, SIZEOF_TCPHDR) \cup r.walk.acc,
               st + 1, r.walk)

tcp_fingerprint_tc(p, map, st) ==
    IF ETH_HLEN > Len(p) THEN Result(p, TC_ACT_OK, {}, st, NoWalk)
    ELSE IF Load16(p, OFF_H_PROTO) # bpf_htons(ETH_P_IP)
    THEN Result(p, TC_ACT_OK, Rng(OFF_H_PROTO, 2), st, NoWalk)
    ELSE IF IPH + SIZEOF_IPHDR > Len(p)
    THEN Result(p, TC_ACT_OK, Rng(OFF_H_PROTO, 2), st, NoWalk)
    ELSE IF At(p, OFF_PROTOCOL) # IPPROTO_TCP
    THEN Result(p, TC_ACT_OK, Rng(OFF_H_PROTO, 2) \cup {OFF_PROTOCOL}, st, NoWalk)
    ELSE IF TCPH(p) + SIZEOF_TCPHDR > Len(p)
    THEN Result(p, TC_ACT_OK, Rng(OFF_H_PROTO, 2) \cup {OFF_PROTOCOL, IPH}, st, NoWalk)
    ELSE IF bpf_map_lookup_elem(map, 0) = Null
    THEN Result(p, TC_ACT_OK, Rng(OFF_H_PROTO, 2) \cup {OFF_PROTOCOL, IPH}, st, NoWalk)
    ELSE
    LET t  == TCPH(p)
        config == bpf_map_lookup_elem(map, 0)[1]
        p1 == Put(p, OFF_TTL, config.ttl)
        p2 == IF syn(p1, t)
              THEN Store16(p1, t + 14, bpf_htons(config.window_size))
              ELSE p1
        p3 == bpf_l3_csum_replace(p2, ETH_HLEN + 10, 0, 0, 0)
    IN  Result(p3, TC_ACT_OK,
               Rng(OFF_H_PROTO, 2) \cup {OFF_PROTOCOL, IPH, t + 13}
                 \cup Rng(OFF_IP_CHECK, 2),
               st, NoWalk)

(***************************************************************************)
(* lucid-empire/ebpf/tcp_fingerprint.c: tcp_fingerprint_tc, the variant    *)
(* that overwrites the TCP timestamp option with No-Ops.  After the        *)
(* checksum helper it takes tcph at data + sizeof(ethhdr) + sizeof(iphdr); *)
(* opt_len is a __u8.                                                      *)
(***************************************************************************)
\* for (int k = 0; k < opt_len_actual && (i + k) < opt_len; k++) options[i + k] = 1;
RECURSIVE lucid_overwrite(_, _, _, _, _, _)
lucid_overwrite(p, o, i, k, opt_len_actual, opt_len) ==
    IF k < opt_len_actual /\ i + k < opt_len
    THEN lucid_overwrite(Put(p, o + i + k, 1), o, i, k + 1,
                         opt_len_actual, opt_len)
    ELSE p

\* offsets written by the inner loop
lucid_overwritten(o, i, opt_len_actual, opt_len) ==
    { o + i + k : k \in { j \in 0..255 : j < opt_len_actual /\ i + j < opt_len } }

\* for (int i = 0; i < opt_len; ) { ... }; o is the offset of options.  Every
\* pass advances i by at least one, so the loop makes at most opt_len passes:
\* passes(n, s) makes up to n of them from state s and stops when the loop is
\* left (s.run is FALSE)
lucid_walk(w, o, opt_len, i, oob) ==
    LET body(s) ==
            IF ~(s.i < opt_len) THEN [ s EXCEPT !.run = FALSE ]
            ELSE
            LET w1 == [ s EXCEPT !.iters = @ + 1, !.acc = @ \cup {o + s.i} ]
                b  == RdB(s.pkt, o + s.i, oob)
            IN  IF b = 0 THEN [ w1 EXCEPT !.run = FALSE ]
                ELSE IF b = 1 THEN [ w1 EXCEPT !.i = @ + 1 ]
                ELSE
                LET opt_len_actual == RdB(s.pkt, o + s.i + 1, oob)
                    w2 == [ w1 EXCEPT !.acc = @ \cup {o + s.i + 1} ]
                IN  IF b = 8               \* TCPOPT_TIMESTAMP
                    THEN [ w2 EXCEPT
                             !.pkt = lucid_overwrite(@, o, s.i, 0, opt_len_actual,
                                                     opt_len),
                             !.acc = @ \cup lucid_overwritten(o, s.i, opt_len_actual,
                                                              opt_len),
                             !.run = FALSE ]
                    ELSE [ w2 EXCEPT
                             !.i = @ + (IF opt_len_actual > 0
                                        THEN opt_len_actual ELSE 1) ]
        RECURSIVE passes(_, _)
        passes(n, s) ==
            IF ~s.run \/ n = 0 THEN s
            ELSE IF n = 1 THEN body(s)
            ELSE LET m == passes(n \div 2, s) IN passes(n - n \div 2, m)
        r == passes(opt_len, [ pkt |-> w.pkt, acc |-> w.acc, iters |-> w.iters,
                               i |-> i, run |-> TRUE ])
    IN  [ pkt |-> r.pkt, acc |-> r.acc, iters |-> r.iters ]

lucid_tcp_fingerprint_tc(p, map, oob) ==
    IF ETH_HLEN > Len(p) THEN Result(p, TC_ACT_OK, {}, 0, NoWalk)
    ELSE IF Load16(p, OFF_H_PROTO) # bpf_htons(ETH_P_IP)
    THEN Result(p, TC_ACT_OK, Rng(OFF_H_PROTO, 2), 0, NoWalk)
    ELSE IF IPH + SIZEOF_IPHDR > Len(p)
    THEN Result(p, TC_ACT_OK, Rng(OFF_H_PROTO, 2), 0, NoWalk)
    ELSE IF At(p, OFF_PROTOCOL) # IPPROTO_TCP
    THEN Result(p, TC_ACT_OK, Rng(OFF_H_PROTO, 2) \cup {OFF_PROTOCOL}, 0, NoWalk)
    ELSE IF TCPH(p) + SIZEOF_TCPHDR > Len(p)
    THEN Result(p, TC_ACT_OK, Rng(OFF_H_PROTO, 2) \cup {OFF_PROTOCOL, IPH}, 0, NoWalk)
    ELSE IF bpf_map_lookup_elem(map, 0) = Null
    THEN Result(p, TC_ACT_OK, Rng(OFF_H_PROTO, 2) \cup {OFF_PROTOCOL, IPH}, 0, NoWalk)
    ELSE
    LET t0 == TCPH(p)
        config == bpf_map_lookup_elem(map, 0)[1]
        p1 == Put(p, OFF_TTL, config.ttl)
        p2 == IF syn(p1, t0)
              THEN Store16(p1, t0 + 14, bpf_htons(config.window_size))
              ELSE p1
        p3 == bpf_l3_csum_replace(p2, ETH_HLEN + 10, 0, 0, 0)
        rd == Rng(OFF_H_PROTO, 2) \cup {OFF_PROTOCOL, IPH, t0 + 13}
                \cup Rng(OFF_IP_CHECK, 2)
        \* tcph = data + sizeof(struct ethhdr) + sizeof(struct iphdr)
        t  == ETH_HLEN + SIZEOF_IPHDR
    IN  IF t + SIZEOF_TCPHDR > Len(p3) THEN Result(p3, TC_ACT_OK, rd, 0, NoWalk)
        ELSE
        LET options == t + SIZEOF_TCPHDR
            opt_len == (doff(p3, t) * 4 - SIZEOF_TCPHDR) % 256
        IN  IF options + opt_len > Len(p3)
            THEN Result(p3, TC_ACT_OK, rd \cup {t + 12}, 0, NoWalk)
            ELSE
            LET w == lucid_walk([ pkt |-> p3, acc |-> {}, iters |-> 0 ],
                                options, opt_len, 0, oob)
            IN  Result(w.pkt, TC_ACT_OK, rd \cup {t + 12} \cup w.acc, 0,
                       [ acc |-> w.acc, iters |-> w.iters, stale |-> FALSE ])

(***************************************************************************)
(* network_shield_v6.c: titan_tc_egress                                    *)
(*                                                                         *)
(* bpf_l3_csum_replace and bpf_l4_csum_replace make the skb writable and   *)
(* may move its data: every packet pointer held across the call is then    *)
(* dangling.  env.reloc says what the first helper call of a run does:     *)
(*   "none"   the data stays where it is;                                  *)
(*   "intact" the data moves, the old copy stays readable and keeps what   *)
(*            it held, and a store through an old pointer is lost;         *)
(*   "junk"   the data moves and the old memory reads as env.junk.         *)
(***************************************************************************)
OS_PROFILE_ENTRIES == 4
TCPOPT_EOL == 0
TCPOPT_NOP == 1
TCPOPT_MSS == 2
TCPOPT_WSCALE == 3

get_config(cfgmap) == bpf_map_lookup_elem(cfgmap, 0)

get_os_profile(tbl, profile_id) == bpf_map_lookup_elem(tbl, profile_id)

\* update_stats(bytes, is_quic, redirected, blocked)
v6_update_stats(st, bytes, is_quic, redirected, blocked) ==
    [ packets_total      |-> st.packets_total + 1,
      packets_quic       |-> st.packets_quic + (IF is_quic THEN 1 ELSE 0),
      packets_redirected |-> st.packets_redirected + (IF redirected THEN 1 ELSE 0),
      packets_blocked    |-> st.packets_blocked + (IF blocked THEN 1 ELSE 0),
      bytes_total        |-> st.bytes_total + bytes ]

QUIC_PORT == 443
SIZEOF_UDPHDR == 8
XDP_DROP == "XDP_DROP"

\* variant: only dns_server_1 is compared
dns_whitelisted_first_only(cfg, dst_ip) == dst_ip = cfg.dns_server_1

\* the negation of (dst_ip != cfg->dns_server_1 && dst_ip != cfg->dns_server_2)
dns_whitelisted(cfg, dst_ip) ==
    dst_ip = cfg.dns_server_1 \/ dst_ip = cfg.dns_server_2

titan_xdp_filter(p, cfgmap, st) ==
    LET cfg == get_config(cfgmap)
    IN
    IF cfg = Null THEN Result(p, XDP_PASS, {}, st, NoWalk)
    ELSE IF ETH_HLEN > Len(p) THEN Result(p, XDP_PASS, {}, st, NoWalk)
    ELSE IF Load16(p, OFF_H_PROTO) # bpf_htons(ETH_P_IP)
    THEN Result(p, XDP_PASS, Rng(OFF_H_PROTO, 2), st, NoWalk)
    ELSE IF IPH + SIZEOF_IPHDR > Len(p)
    THEN Result(p, XDP_PASS, Rng(OFF_H_PROTO, 2), st, NoWalk)
    ELSE
    LET pkt_size == Len(p)
        c  == cfg[1]
        t  == TCPH(p)                  \* (void *)ip + (ip->ihl * 4)
        rd == Rng(OFF_H_PROTO, 2) \cup {OFF_PROTOCOL, IPH}
    IN
    IF At(p, OFF_PROTOCOL) = IPPROTO_UDP
    THEN IF t + SIZEOF_UDPHDR > Len(p) THEN Result(p, XDP_PASS, rd, st, NoWalk)
         ELSE
         LET dst_port == bpf_ntohs(Load16(p, t + 2))
             src_port == bpf_ntohs(Load16(p, t))
             dns == c.dns_protection_enabled # 0 /\ dst_port = 53
             rd1 == rd \cup Rng(t, 4) \cup (IF dns THEN Rng(OFF_DADDR, 4) ELSE {})
             \* after the DNS test, when the packet was not dropped there
             st1 == IF dns THEN v6_update_stats(st, pkt_size, FALSE, FALSE, FALSE)
                    ELSE st
         IN  IF dns /\ ~dns_whitelisted(c, Load32(p, OFF_DADDR))
             THEN Result(p, XDP_DROP, rd1,
                         v6_update_stats(st, pkt_size, FALSE, FALSE, TRUE), NoWalk)
             ELSE IF c.webrtc_block_enabled # 0
                     /\ (dst_port = 3478 \/ dst_port = 5349
                         \/ src_port = 3478 \/ src_port = 5349)
             THEN Result(p, XDP_DROP, rd1,
                         v6_update_stats(st1, pkt_size, FALSE, FALSE, TRUE), NoWalk)
             ELSE IF dst_port = QUIC_PORT
             THEN Result(p, XDP_PASS, rd1,
                         v6_update_stats(st1, pkt_size, TRUE, FALSE, FALSE), NoWalk)
             ELSE Result(p, XDP_PASS, rd1, st1, NoWalk)
    ELSE IF At(p, OFF_PROTOCOL) = IPPROTO_TCP /\ c.tcp_fingerprint_enabled # 0
    THEN IF t + SIZEOF_TCPHDR > Len(p) THEN Result(p, XDP_PASS, rd, st, NoWalk)
         ELSE Result(p, XDP_PASS, rd,
                     v6_update_stats(st, pkt_size, FALSE, FALSE, FALSE), NoWalk)
    ELSE Result(p, XDP_PASS, rd, st, NoWalk)

\* a helper call: pointers held across it are no longer derived from the
\* current data, and the first call of the run may move the data
HelperCall(L, env, before) ==
    [ L EXCEPT !.calls = @ + 1,
               !.fresh = FALSE,
               !.dangling = @ \/ (L.calls = 0 /\ env.reloc # "none"),
               !.old = IF ~L.dangling /\ L.calls = 0 /\ env.reloc # "none"
                       THEN before ELSE @ ]

\* data, data_end, eth, ip, tcp, opts, opts_end re-derived from the skb
Rederive(L) == [ L EXCEPT !.fresh = TRUE, !.dangling = FALSE ]

\* a load through ip / tcp / opts as the loop holds them
PtrRd(L, env, o) ==
    IF L.dangling
    THEN (IF env.reloc = "intact" THEN At(L.old, o) ELSE env.junk)
    ELSE At(L.p, o)

\* a store through opts as the loop holds it
PtrWr(L, o, b) ==
    IF L.dangling THEN [ L EXCEPT !.old = Put(@, o, b) ]
    ELSE [ L EXCEPT !.p = Put(@, o, b) ]

Touch(L, offs) ==
    [ L EXCEPT !.acc = @ \cup offs, !.stale = @ \/ ~L.fresh ]

\* "Rewrite MSS": the body of if (old_mss != new_mss); tcp_hdr_len is the
\* __u8 computed before the loop
egress_rewrite_mss(L, env, tcp_hdr_len, i, old_mss, new_mss) ==
    LET L1  == Touch(L, {})                        \* ip->ihl
        off == ETH_HLEN + (PtrRd(L, env, IPH) % 16) * 4 + 16
        p1  == bpf_l4_csum_replace(L.p, off, bpf_htons(old_mss), bpf_htons(new_mss))
        t2  == TCPH(p1)
        L2  == [ Rederive(HelperCall([ L1 EXCEPT !.p = p1 ], env, L.p))
                   EXCEPT !.t = t2 ]
    IN  IF ETH_HLEN > Len(p1) \/ IPH + SIZEOF_IPHDR > Len(p1)
           \/ t2 + SIZEOF_TCPHDR > Len(p1)
        THEN [ L2 EXCEPT !.exit = "return" ]
        ELSE IF t2 + tcp_hdr_len > Len(p1) THEN [ L2 EXCEPT !.exit = "done" ]
        ELSE [ L2 EXCEPT !.p = Put(Put(p1, t2 + 20 + i + 2, (new_mss \div 256) % 256),
                                   t2 + 20 + i + 3, new_mss % 256),
                         !.acc = @ \cup Rng(t2 + 20 + i + 2, 2) ]

\* "Rewrite Window Scale": the body of if (old_scale != new_scale)
egress_rewrite_wscale(L, env, i, old_scale, new_scale) ==
    LET L1  == PtrWr(Touch(L, {L.t + 20 + i + 2}), L.t + 20 + i + 2, new_scale)
        off == ETH_HLEN + (PtrRd(L1, env, IPH) % 16) * 4 + 16
        p1  == bpf_l4_csum_replace(L1.p, off, bpf_htons(old_scale), bpf_htons(new_scale))
        L2  == HelperCall([ L1 EXCEPT !.p = p1 ], env, L1.p)
    IN  IF ETH_HLEN + 40 > Len(p1) THEN [ L2 EXCEPT !.exit = "return" ] ELSE L2

\* for (int i = 0; i < 40; i++) { ... } under #pragma unroll: 40 copies of the
\* loop body, each skipped once the loop has been left (exit is no longer
\* "run"), then the end of the loop; copies(n, s) runs n of them from state s.
\* L.t is tcp as the loop holds it and optlen is opts_end - opts
egress_walk(L, env, os_prof, optlen, i) ==
    LET body(s) ==
            LET o == s.t + 20 + s.i
            IN  IF ~(s.i < 40) \/ s.i >= optlen THEN [ s EXCEPT !.exit = "done" ]
                ELSE
                LET L1   == [ Touch(s, {o}) EXCEPT !.iters = @ + 1 ]
                    kind == PtrRd(s, env, o)
                IN  IF kind = TCPOPT_EOL THEN [ L1 EXCEPT !.exit = "done" ]
                    ELSE IF kind = TCPOPT_NOP THEN [ L1 EXCEPT !.i = @ + 1 ]
                    ELSE IF s.i + 1 >= optlen THEN [ L1 EXCEPT !.exit = "done" ]
                    ELSE
                    LET len == PtrRd(s, env, o + 1)
                        L2  == Touch(L1, {o + 1})
                    IN  IF len < 2 \/ s.i + len > optlen
                        THEN [ L2 EXCEPT !.exit = "done" ]
                        ELSE
                        LET L3 ==
                              IF kind = TCPOPT_MSS /\ len = 4 /\ s.i + 3 < optlen
                              THEN LET old_mss == (PtrRd(s, env, o + 2) * 256
                                                   + PtrRd(s, env, o + 3)) % W16
                                       L2a == Touch(L2, Rng(o + 2, 2))
                                   IN  IF old_mss # os_prof.mss
                                       THEN egress_rewrite_mss(L2a, env, optlen + 20,
                                                               s.i, old_mss, os_prof.mss)
                                       ELSE L2a
                              ELSE IF kind = TCPOPT_WSCALE /\ len = 3 /\ s.i + 2 < optlen
                              THEN LET old_scale == PtrRd(s, env, o + 2)
                                       L2a == Touch(L2, {o + 2})
                                   IN  IF old_scale # os_prof.window_scale
                                       THEN egress_rewrite_wscale(L2a, env, s.i, old_scale,
                                                                  os_prof.window_scale)
                                       ELSE L2a
                              ELSE L2
                        IN  [ L3 EXCEPT !.i = @ + (len - 1) + 1 ]
        RECURSIVE copies(_, _)
        copies(n, s) ==
            IF s.exit # "run" THEN s
            ELSE IF n = 1 THEN body(s)
            ELSE LET m == copies(n \div 2, s) IN copies(n - n \div 2, m)
        r == copies(40, [ f \in DOMAIN L \cup {"i"} |->
                            IF f = "i" THEN i ELSE L[f] ])
    IN  [ f \in DOMAIN L |->
            IF f = "exit" /\ r.exit = "run" THEN "done" ELSE r[f] ]

EgressWalkOf(L) == [ acc |-> L.acc, iters |-> L.iters, stale |-> L.stale ]

titan_tc_egress(p, cfgmap, tbl, st, env) ==
    LET cfg == get_config(cfgmap)
    IN
    IF cfg = Null THEN Result(p, TC_ACT_OK, {}, st, NoWalk)
    ELSE IF cfg[1].tcp_fingerprint_enabled = 0 THEN Result(p, TC_ACT_OK, {}, st, NoWalk)
    ELSE IF ETH_HLEN > Len(p) THEN Result(p, TC_ACT_OK, {}, st, NoWalk)
    ELSE IF Load16(p, OFF_H_PROTO) # bpf_htons(ETH_P_IP)
    THEN Result(p, TC_ACT_OK, Rng(OFF_H_PROTO, 2), st, NoWalk)
    ELSE IF IPH + SIZEOF_IPHDR > Len(p)
    THEN Result(p, TC_ACT_OK, Rng(OFF_H_PROTO, 2), st, NoWalk)
    ELSE IF At(p, OFF_PROTOCOL) # IPPROTO_TCP
    THEN Result(p, TC_ACT_OK, Rng(OFF_H_PROTO, 2) \cup {OFF_PROTOCOL}, st, NoWalk)
    ELSE IF get_os_profile(tbl, cfg[1].os_profile) = Null
    THEN Result(p, TC_ACT_OK, Rng(OFF_H_PROTO, 2) \cup {OFF_PROTOCOL}, st, NoWalk)
    ELSE
    LET os_prof == get_os_profile(tbl, cfg[1].os_profile)[1]
        old_ttl == At(p, OFF_TTL)
        new_ttl == os_prof.ttl
        \* TTL: checksum fixup, pointers re-fetched, then the store
        p1  == IF old_ttl # new_ttl
               THEN Put(bpf_l3_csum_replace(p, ETH_HLEN + 10, bpf_htons(old_ttl),
                                            bpf_htons(new_ttl), 2),
                        OFF_TTL, new_ttl)
               ELSE p
        c1  == IF old_ttl # new_ttl THEN 1 ELSE 0
        rd1 == Rng(OFF_H_PROTO, 2) \cup {OFF_PROTOCOL, OFF_TTL, IPH}
               \cup (IF old_ttl # new_ttl THEN Rng(OFF_IP_CHECK, 2) ELSE {})
        t   == TCPH(p1)
    IN
    IF t + SIZEOF_TCPHDR > Len(p1) THEN Result(p1, TC_ACT_OK, rd1, st, NoWalk)
    ELSE IF ~syn(p1, t)
    THEN Result(p1, TC_ACT_OK, rd1 \cup {t + 13},
                v6_update_stats(st, 0, FALSE, FALSE, FALSE), NoWalk)
    ELSE
    LET old_win == Load16(p1, t + 14)
        new_win == bpf_htons(os_prof.window_size)
        p2  == IF old_win # new_win
               THEN Store16(bpf_l4_csum_replace(p1, ETH_HLEN + ihl(p1) * 4 + 16,
                                                old_win, new_win),
                            t + 14, new_win)
               ELSE p1
        c2  == c1 + (IF old_win # new_win THEN 1 ELSE 0)
        rd2 == rd1 \cup Rng(t + 12, 4)
               \cup (IF old_win # new_win THEN Rng(t + 16, 2) ELSE {})
        tcp_hdr_len == doff(p2, t) * 4
    IN
    IF tcp_hdr_len <= 20 \/ t + tcp_hdr_len > Len(p2)
    THEN Result(p2, TC_ACT_OK, rd2,
                v6_update_stats(st, 0, FALSE, FALSE, FALSE), NoWalk)
    ELSE
    LET L == egress_walk([ p |-> p2, old |-> p2, t |-> t, iters |-> 0, acc |-> {},
                           fresh |-> TRUE, dangling |-> FALSE, calls |-> c2,
                           stale |-> FALSE, exit |-> "run" ],
                         env, os_prof, tcp_hdr_len - 20, 0)
    IN  Result(L.p, TC_ACT_OK, rd2 \cup L.acc,
               IF L.exit = "return" THEN st
               ELSE v6_update_stats(st, 0, FALSE, FALSE, FALSE),
               EgressWalkOf(L))

(***************************************************************************)
(* xdp_outbound.c                                                          *)
(***************************************************************************)
OUTBOUND_TTL == 64

\* variant: the Ethertype test is left out, every long enough frame is rewritten
xdp_outbound_masking_any_ethertype(p) ==
    IF IPH + SIZEOF_IPHDR > Len(p) THEN Result(p, XDP_PASS, {}, 0, NoWalk)
    ELSE
    LET p1 == Put(p, OFF_TTL, OUTBOUND_TTL)
        p2 == Store16(p1, OFF_ID, 0)
        rd == {OFF_PROTOCOL}
    IN  IF At(p2, OFF_PROTOCOL) = IPPROTO_TCP
           /\ IPH + SIZEOF_IPHDR + SIZEOF_TCPHDR > Len(p2)
        THEN Result(p2, XDP_PASS, rd, 0, NoWalk)
        ELSE Result(Store16(p2, OFF_IP_CHECK, 0), XDP_PASS, rd, 0, NoWalk)

xdp_outbound_masking(p) ==
    IF IPH + SIZEOF_IPHDR > Len(p) THEN Result(p, XDP_PASS, {}, 0, NoWalk)
    ELSE IF Load16(p, OFF_H_PROTO) # bpf_htons(ETH_P_IP)
    THEN Result(p, XDP_PASS, Rng(OFF_H_PROTO, 2), 0, NoWalk)
    ELSE
    LET p1 == Put(p, OFF_TTL, OUTBOUND_TTL)
        p2 == Store16(p1, OFF_ID, 0)
        rd == Rng(OFF_H_PROTO, 2) \cup {OFF_PROTOCOL}
    IN  IF At(p2, OFF_PROTOCOL) = IPPROTO_TCP
           /\ IPH + SIZEOF_IPHDR + SIZEOF_TCPHDR > Len(p2)
        THEN Result(p2, XDP_PASS, rd, 0, NoWalk)
        ELSE Result(Store16(p2, OFF_IP_CHECK, 0), XDP_PASS, rd, 0, NoWalk)

(***************************************************************************)
(* What the control plane may store in the maps, and what a run may meet.  *)
(***************************************************************************)
Objects == { "network_shield", "tcp_fingerprint", "lucid_tcp_fingerprint",
             "network_shield_v6", "xdp_outbound" }

PersonaValues == { PERSONA_LINUX, PERSONA_WINDOWS, PERSONA_MACOS, 3, 99, 65536,
                   2147483647 }

TcpConfigs ==
    { [ ttl |-> 128, window_size |-> 65535, mss |-> 1460, window_scale |-> 8,
        sack_permitted |-> 1, timestamps |-> 0, timestamp_offset |-> U32(0) ],
      [ ttl |-> 64, window_size |-> 29200, mss |-> 1460, window_scale |-> 7,
        sack_permitted |-> 1, timestamps |-> 1, timestamp_offset |-> U32(1) ],
      [ ttl |-> 255, window_size |-> 0, mss |-> 0, window_scale |-> 0,
        sack_permitted |-> 0, timestamps |-> 1, timestamp_offset |-> << W16 - 1, W16 - 1 >> ],
      [ ttl |-> 64, window_size |-> 64240, mss |-> 1400, window_scale |-> 7,
        sack_permitted |-> 1, timestamps |-> 1, timestamp_offset |-> << 0, W16 - 1 >> ] }

\* dns_server_1, dns_server_2 as the __u32 the program loads: 93.184.216.34 (the
\* destination of the packets), 8.8.8.8 and 1.1.1.1
DnsServerPairs ==
    { << << 8920, 47197 >>, << 2056, 2056 >> >>,
      << << 2056, 2056 >>, << 8920, 47197 >> >>,
      << << 2056, 2056 >>, << 257, 257 >> >> }

ZeroTitanConfig ==
    [ quic_proxy_enabled |-> 0, tcp_fingerprint_enabled |-> 0,
      dns_protection_enabled |-> 0, webrtc_block_enabled |-> 0,
      proxy_ip |-> 0, proxy_port |-> 0, os_profile |-> 0,
      dns_server_1 |-> U32(0), dns_server_2 |-> U32(0) ]

TitanConfigs ==
    { [ ZeroTitanConfig EXCEPT !.tcp_fingerprint_enabled = 1, !.os_profile = k ] :
          k \in {0, 2, 3, 99} }
    \cup { ZeroTitanConfig }
    \cup
    { [ ZeroTitanConfig EXCEPT !.dns_protection_enabled = d,
                               !.webrtc_block_enabled = w,
                               !.dns_server_1 = a[1], !.dns_server_2 = a[2] ] :
          d \in {0, 1}, w \in {0, 1}, a \in DnsServerPairs }

OsProfile(ttl, win, ws, mss) ==
    [ ttl |-> ttl, window_size |-> win, window_scale |-> ws, mss |-> mss,
      sack_ok |-> 1, timestamps |-> 1, nop_count |-> 1, opt_count |-> 0 ]

ZeroProfiles == [ k \in 0..(OS_PROFILE_ENTRIES - 1) |-> OsProfile(0, 0, 0, 0) ]

\* a table as the control plane may populate it (OS_PROFILE_WINDOWS11,
\* OS_PROFILE_WINDOWS10, OS_PROFILE_MACOS14, OS_PROFILE_LINUX6)
UserProfiles ==
    [ k \in 0..(OS_PROFILE_ENTRIES - 1) |->
        CASE k = 0 -> OsProfile(128, 65535, 8, 1460)
          [] k = 1 -> OsProfile(128, 64240, 8, 1460)
          [] k = 2 -> OsProfile(64, 65535, 6, 1460)
          [] OTHER -> OsProfile(64, 29200, 7, 1400) ]

\* bytes that may lie behind data_end, and behaviours of the first helper call
OobBytes == { 0, 4 }
Envs == [ reloc : { "none", "intact", "junk" }, junk : { 3 } ]

(***************************************************************************)
(* The state machine.                                                      *)
(***************************************************************************)
\* the CPUs that run packet programs, and the invocations of one burst
CPUs == 0..(NumCpus - 1)
Invocations == 1..MaxInvocations
IdleInvocation == [ pc |-> "idle", cpu |-> 0, tmp |-> 0 ]

\* no invocation has looked its record up
NoSnap ==
    [ pc |-> 0, slot |-> 1, applied |-> << >>, elems |-> << >>, live |-> 1,
      updates |-> 0 ]

\* xdp_loader.c globals before main runs (obj = NULL, ifindex = -1,
\* xdp_flags = 0, running = true), nothing attached to the interface
NoLoader ==
    [ pc |-> "main", obj |-> "NULL", object |-> "none", ifindex |-> -1,
      xdp_flags |-> 0, running |-> TRUE, attached |-> "none",
      attach_flags |-> -1, detach_log |-> << >>, signals |-> 0, status |-> -1 ]

ZeroStats == [ k \in 0..3 |-> 0 ]
ZeroTitanStats ==
    [ packets_total |-> 0, packets_quic |-> 0, packets_redirected |-> 0,
      packets_blocked |-> 0, bytes_total |-> 0 ]

Init ==
    /\ loaded \in Objects
    /\ phase = "loaded"
    /\ persona_config = (0 :> 0)
    /\ tcp_config_map = << >>
    /\ titan_config_map = (0 :> ZeroTitanConfig)
    /\ titan_os_profiles = ZeroProfiles
    /\ stats = ZeroStats
    /\ stats_map = 0
    /\ titan_stats_map = ZeroTitanStats
    /\ pkt_in = << >>
    /\ prev = << >>
    /\ pkt = << >>
    /\ hist = << >>
    /\ ret = "none"
    /\ reads = {}
    /\ walk = NoWalk
    /\ percpu_stats = [ c \in CPUs |-> ZeroTitanStats ]
    /\ invs = [ i \in Invocations |-> IdleInvocation ]
    /\ snap = NoSnap
    /\ ldr = NoLoader

PacketVars == << pkt_in, prev, pkt, hist, ret, reads, walk >>
StatVars == << stats, stats_map, titan_stats_map >>
ConcVars == << percpu_stats, invs, snap, ldr >>

\* the control plane stores the persona
Configure_persona ==
    /\ loaded = "network_shield" /\ phase = "loaded"
    /\ \E v \in PersonaValues : persona_config' = (0 :> v)
    /\ phase' = "configured"
    /\ UNCHANGED << loaded, tcp_config_map, titan_config_map, titan_os_profiles,
                    StatVars, PacketVars, ConcVars >>

\* the control plane stores a tcp_config under key 0
Configure_tcp_config ==
    /\ loaded \in { "tcp_fingerprint", "lucid_tcp_fingerprint" } /\ phase = "loaded"
    /\ \E c \in TcpConfigs : tcp_config_map' = (0 :> c)
    /\ phase' = "configured"
    /\ UNCHANGED << loaded, persona_config, titan_config_map, titan_os_profiles,
                    StatVars, PacketVars, ConcVars >>

\* the control plane populates the profile table and stores the configuration
Configure_titan ==
    /\ loaded = "network_shield_v6" /\ phase = "loaded"
    /\ \E c \in TitanConfigs : titan_config_map' = (0 :> c)
    /\ titan_os_profiles' = UserProfiles
    /\ phase' = "configured"
    /\ UNCHANGED << loaded, persona_config, tcp_config_map, StatVars, PacketVars,
                    ConcVars >>

\* a packet reaches the hook
Receive ==
    /\ phase \in { "loaded", "configured" }
    /\ \E p \in Packets : pkt_in' = p /\ prev' = p /\ pkt' = p
    /\ phase' = "packet"
    /\ UNCHANGED << loaded, persona_config, tcp_config_map, titan_config_map,
                    titan_os_profiles, StatVars, hist, ret, reads, walk, ConcVars >>

Commit(r, name) ==
    /\ prev' = pkt
    /\ pkt' = r.pkt
    /\ hist' = Append(hist, name)
    /\ ret' = r.ret
    /\ reads' = r.reads
    /\ walk' = r.walk
    /\ UNCHANGED << loaded, phase, persona_config, tcp_config_map,
                    titan_config_map, titan_os_profiles, pkt_in, ConcVars >>

CanRun(obj) == loaded = obj /\ phase = "packet" /\ Len(hist) < MaxRuns

Run_network_shield_xdp ==
    /\ CanRun("network_shield")
    /\ LET r == network_shield_xdp(pkt, persona_config, stats)
       IN  Commit(r, "network_shield_xdp") /\ stats' = r.stats
    /\ UNCHANGED << stats_map, titan_stats_map >>

Run_network_shield_tc ==
    /\ CanRun("network_shield")
    /\ LET r == network_shield_tc(pkt, persona_config, stats)
       IN  Commit(r, "network_shield_tc") /\ stats' = r.stats
    /\ UNCHANGED << stats_map, titan_stats_map >>

Run_tcp_fingerprint_xdp ==
    /\ CanRun("tcp_fingerprint")
    /\ \E oob \in OobBytes :
         LET r == tcp_fingerprint_xdp(pkt, tcp_config_map, stats_map, oob)
         IN  Commit(r, "tcp_fingerprint_xdp") /\ stats_map' = r.stats
    /\ UNCHANGED << stats, titan_stats_map >>

Run_tcp_fingerprint_tc ==
    /\ CanRun("tcp_fingerprint")
    /\ LET r == tcp_fingerprint_tc(pkt, tcp_config_map, stats_map)
       IN  Commit(r, "tcp_fingerprint_tc") /\ stats_map' = r.stats
    /\ UNCHANGED << stats, titan_stats_map >>

Run_lucid_tcp_fingerprint_tc ==
    /\ CanRun("lucid_tcp_fingerprint")
    /\ \E oob \in OobBytes :
         LET r == lucid_tcp_fingerprint_tc(pkt, tcp_config_map, oob)
         IN  Commit(r, "lucid_tcp_fingerprint_tc")
    /\ UNCHANGED StatVars

Run_titan_xdp_filter ==
    /\ CanRun("network_shield_v6")
    /\ LET r == titan_xdp_filter(pkt, titan_config_map, titan_stats_map)
       IN  Commit(r, "titan_xdp_filter") /\ titan_stats_map' = r.stats
    /\ UNCHANGED << stats, stats_map >>

Run_titan_tc_egress ==
    /\ CanRun("network_shield_v6")
    /\ \E env \in Envs :
         LET r == titan_tc_egress(pkt, titan_config_map, titan_os_profiles,
                                  titan_stats_map, env)
         IN  Commit(r, "titan_tc_egress") /\ titan_stats_map' = r.stats
    /\ UNCHANGED << stats, stats_map >>

Run_xdp_outbound_masking ==
    /\ CanRun("xdp_outbound")
    /\ LET r == xdp_outbound_masking(pkt)
       IN  Commit(r, "xdp_outbound_masking")
    /\ UNCHANGED StatVars

Next ==
    \/ Configure_persona
    \/ Configure_tcp_config
    \/ Configure_titan
    \/ Receive
    \/ Run_network_shield_xdp
    \/ Run_network_shield_tc
    \/ Run_tcp_fingerprint_xdp
    \/ Run_tcp_fingerprint_tc
    \/ Run_lucid_tcp_fingerprint_tc
    \/ Run_titan_xdp_filter
    \/ Run_titan_tc_egress
    \/ Run_xdp_outbound_masking

Spec == Init /\ [][Next]_vars

(***************************************************************************)
(* Concurrent invocations reaching the statistics update.                  *)
(*                                                                         *)
(* tcp_fingerprint_xdp: stats_map is a BPF_MAP_TYPE_ARRAY, one value       *)
(* shared by all CPUs, updated by __sync_fetch_and_add (one atomic step).  *)
(* network_shield_v6 update_stats: titan_stats_map is a                    *)
(* BPF_MAP_TYPE_PERCPU_ARRAY, the lookup returns the value of the running  *)
(* CPU, and stats->packets_total++ is a load followed by a store.          *)
(* XDP and TC programs run to completion on their CPU (softirq context):   *)
(* a CPU starts a packet invocation only when it runs none; invocations on *)
(* different CPUs interleave freely.  titan_sk_msg, which also calls       *)
(* update_stats, is not a packet program and is not part of this burst.    *)
(***************************************************************************)
\* variant: the lookup returns the same value on every CPU (BPF_MAP_TYPE_ARRAY)
SharedSlot(c) == 0

\* bpf_map_lookup_elem on a per-CPU array: the value of the running CPU
SlotOf(c) == c

InFlight(i) == invs[i].pc \notin { "idle", "done" }
CpuBusy(c) == \E i \in Invocations : InFlight(i) /\ invs[i].cpu = c

StatsInit ==
    /\ loaded \in { "tcp_fingerprint", "network_shield_v6" }
    /\ phase = "traffic"
    /\ persona_config = (0 :> 0)
    /\ tcp_config_map = << >>
    /\ titan_config_map = (0 :> ZeroTitanConfig)
    /\ titan_os_profiles = ZeroProfiles
    /\ stats = ZeroStats
    /\ stats_map = 0
    /\ titan_stats_map = ZeroTitanStats
    /\ pkt_in = << >>
    /\ prev = << >>
    /\ pkt = << >>
    /\ hist = << >>
    /\ ret = "none"
    /\ reads = {}
    /\ walk = NoWalk
    /\ percpu_stats = [ c \in CPUs |-> ZeroTitanStats ]
    /\ invs = [ i \in Invocations |-> IdleInvocation ]
    /\ snap = NoSnap
    /\ ldr = NoLoader

StatsFrame ==
    UNCHANGED << loaded, phase, persona_config, tcp_config_map, titan_config_map,
                 titan_os_profiles, stats, titan_stats_map, PacketVars,
                 snap, ldr >>

\* a packet invocation starts on an idle CPU and runs up to its statistics update
Arrive(i) ==
    /\ invs[i].pc = "idle"
    /\ \E c \in CPUs :
          /\ ~CpuBusy(c)
          /\ invs' = [ invs EXCEPT ![i] = [ pc |-> "update", cpu |-> c, tmp |-> 0 ] ]
    /\ UNCHANGED << stats_map, percpu_stats >>
    /\ StatsFrame

\* tcp_fingerprint_xdp: if (packets) __sync_fetch_and_add(packets, 1);
FetchAndAdd(i) ==
    /\ loaded = "tcp_fingerprint" /\ invs[i].pc = "update"
    /\ stats_map' = stats_map + 1
    /\ invs' = [ invs EXCEPT ![i].pc = "done" ]
    /\ UNCHANGED percpu_stats
    /\ StatsFrame

\* update_stats: stats->packets_total++, the load
LoadTotal(i) ==
    /\ loaded = "network_shield_v6" /\ invs[i].pc = "update"
    /\ invs' = [ invs EXCEPT ![i].pc = "store",
                             ![i].tmp = percpu_stats[SlotOf(invs[i].cpu)].packets_total ]
    /\ UNCHANGED << stats_map, percpu_stats >>
    /\ StatsFrame

\* update_stats: stats->packets_total++, the store
StoreTotal(i) ==
    /\ loaded = "network_shield_v6" /\ invs[i].pc = "store"
    /\ percpu_stats' = [ percpu_stats EXCEPT
                            ![SlotOf(invs[i].cpu)].packets_total = invs[i].tmp + 1 ]
    /\ invs' = [ invs EXCEPT ![i].pc = "done" ]
    /\ UNCHANGED stats_map
    /\ StatsFrame

StatsNext ==
    \E i \in Invocations :
        \/ Arrive(i)
        \/ FetchAndAdd(i)
        \/ LoadTotal(i)
        \/ StoreTotal(i)

StatsSpec == StatsInit /\ [][StatsNext]_vars

(***************************************************************************)
(* One packet invocation reading its record while the control plane        *)
(* updates the map.                                                        *)
(*                                                                         *)
(* titan_tc_egress: os_prof points into the value of titan_os_profiles, a  *)
(* BPF_MAP_TYPE_ARRAY whose values user space overwrites in place; the     *)
(* program loads os_prof->ttl, ->window_size, ->mss and ->window_scale at  *)
(* different points of its run.  tcp_fingerprint_xdp: config points into   *)
(* an element of tcp_config_map, a preallocated BPF_MAP_TYPE_HASH with     *)
(* max_entries 1: an update writes the new value into the spare element    *)
(* and makes it the live one, and the element it replaces is the spare of  *)
(* the next update.  The packet is a SYN that carries the options, so      *)
(* every field is loaded.                                                  *)
(***************************************************************************)
\* os_prof->... in the order of network_shield_v6.c:399, 424, 479, 504
EgressFields == << "ttl", "window_size", "mss", "window_scale" >>

\* config->... in the order of tcp_fingerprint.c:199, 202, 209, 238
XdpFields == << "ttl", "window_size", "timestamp_offset", "mss" >>

FieldsOf(obj) == IF obj = "network_shield_v6" THEN EgressFields ELSE XdpFields

\* the record behind the pointer the lookup returned, as it is now
RecordRead(obj, tbl, s) ==
    IF obj = "network_shield_v6" THEN tbl[0] ELSE s.elems[s.slot]

SnapInit ==
    /\ loaded \in { "tcp_fingerprint", "network_shield_v6" }
    /\ phase = "traffic"
    /\ persona_config = (0 :> 0)
    /\ \E c \in TcpConfigs :
          /\ tcp_config_map = (0 :> c)
          /\ snap = [ NoSnap EXCEPT !.elems = << c, c >> ]
    /\ titan_config_map = (0 :> [ ZeroTitanConfig EXCEPT !.tcp_fingerprint_enabled = 1 ])
    /\ titan_os_profiles = UserProfiles
    /\ stats = ZeroStats
    /\ stats_map = 0
    /\ titan_stats_map = ZeroTitanStats
    /\ pkt_in = << >>
    /\ prev = << >>
    /\ pkt = << >>
    /\ hist = << >>
    /\ ret = "none"
    /\ reads = {}
    /\ walk = NoWalk
    /\ percpu_stats = [ c \in CPUs |-> ZeroTitanStats ]
    /\ invs = [ i \in Invocations |-> IdleInvocation ]
    /\ ldr = NoLoader

SnapFrame ==
    UNCHANGED << loaded, phase, persona_config, titan_config_map, StatVars,
                 PacketVars, percpu_stats, invs, ldr >>

\* user space: bpf_map_update_elem(titan_os_profiles, &key, &profile, BPF_ANY)
Update_os_profile ==
    /\ loaded = "network_shield_v6" /\ snap.updates < MaxUpdates
    /\ \E k \in DOMAIN UserProfiles :
          /\ UserProfiles[k] # titan_os_profiles[0]
          /\ titan_os_profiles' = [ titan_os_profiles EXCEPT ![0] = UserProfiles[k] ]
    /\ snap' = [ snap EXCEPT !.updates = @ + 1 ]
    /\ UNCHANGED tcp_config_map
    /\ SnapFrame

\* user space: bpf_map_update_elem(tcp_config_map, &key, &config, BPF_ANY)
Update_tcp_config ==
    /\ loaded = "tcp_fingerprint" /\ snap.updates < MaxUpdates
    /\ \E c \in TcpConfigs :
          /\ c # tcp_config_map[0]
          /\ tcp_config_map' = (0 :> c)
          /\ snap' = [ snap EXCEPT !.elems[3 - snap.live] = c,
                                   !.live = 3 - snap.live,
                                   !.updates = @ + 1 ]
    /\ UNCHANGED titan_os_profiles
    /\ SnapFrame

\* get_os_profile(cfg->os_profile) / bpf_map_lookup_elem(&tcp_config_map, &key)
Lookup ==
    /\ snap.pc = 0
    /\ snap' = [ snap EXCEPT !.pc = 1, !.slot = snap.live ]
    /\ UNCHANGED << tcp_config_map, titan_os_profiles >>
    /\ SnapFrame

\* the next load of a field through the pointer, and its use on the packet
ReadField ==
    /\ snap.pc \in 1..Len(FieldsOf(loaded))
    /\ snap' = [ snap EXCEPT
                   !.pc = @ + 1,
                   !.applied = Append(@, RecordRead(loaded, titan_os_profiles,
                                                    snap)[FieldsOf(loaded)[snap.pc]]) ]
    /\ UNCHANGED << tcp_config_map, titan_os_profiles >>
    /\ SnapFrame

SnapNext ==
    \/ Update_os_profile
    \/ Update_tcp_config
    \/ Lookup
    \/ ReadField

SnapSpec == SnapInit /\ [][SnapNext]_vars

(***************************************************************************)
(* xdp_loader.c: the loader process.                                       *)
(*                                                                         *)
(* ldr.obj is the global pointer obj ("NULL", "ptr", or "err" for the      *)
(* error pointer of a failed open), ldr.object the libbpf object behind    *)
(* it, ldr.attached what the interface runs.  ldr.attach_flags and         *)
(* ldr.detach_log record the flags of the successful attach and of every   *)
(* detach call.  Every library call fails or succeeds as the environment   *)
(* decides.  sig_handler runs between any two steps once main has          *)
(* installed it; monitor_loop calls sleep and print_stats between two      *)
(* tests of running, so each test loads the variable.                      *)
(***************************************************************************)
XDP_FLAGS_SKB_MODE == 2

\* interface indexes if_nametoindex may return for the -i argument
Interfaces == { 2, 3 }

\* the attach mode the flags select
xdp_mode(flags) == IF flags = XDP_FLAGS_SKB_MODE THEN "skb" ELSE "native"

\* bpf_set_link_xdp_fd(ifindex, fd, flags) when the call succeeds: fd -1 removes
\* the program of the mode the flags select
bpf_set_link_xdp_fd(att, fd, flags) ==
    IF fd = -1 THEN (IF att = xdp_mode(flags) THEN "none" ELSE att)
    ELSE xdp_mode(flags)

\* variant: the detach call passes flags 0
detach_xdp_program_native_flags(l) ==
    LET l1 == IF l.ifindex >= 0
              THEN [ l EXCEPT !.attached = bpf_set_link_xdp_fd(@, -1, 0),
                              !.detach_log = Append(@, 0) ]
              ELSE l
    IN  IF l1.obj # "NULL" THEN [ l1 EXCEPT !.object = "closed", !.obj = "NULL" ]
        ELSE l1

detach_xdp_program(l) ==
    LET l1 == IF l.ifindex >= 0
              THEN [ l EXCEPT !.attached = bpf_set_link_xdp_fd(@, -1, l.xdp_flags),
                              !.detach_log = Append(@, l.xdp_flags) ]
              ELSE l
    IN  IF l1.obj # "NULL" THEN [ l1 EXCEPT !.object = "closed", !.obj = "NULL" ]
        ELSE l1

\* load_xdp_program returned -1: main prints the error and returns 1
LoadFailed(l) == [ l EXCEPT !.pc = "exited", !.status = 1 ]

LoaderInit ==
    /\ loaded = "xdp_outbound"
    /\ phase = "loader"
    /\ persona_config = (0 :> 0)
    /\ tcp_config_map = << >>
    /\ titan_config_map = (0 :> ZeroTitanConfig)
    /\ titan_os_profiles = ZeroProfiles
    /\ stats = ZeroStats
    /\ stats_map = 0
    /\ titan_stats_map = ZeroTitanStats
    /\ pkt_in = << >>
    /\ prev = << >>
    /\ pkt = << >>
    /\ hist = << >>
    /\ ret = "none"
    /\ reads = {}
    /\ walk = NoWalk
    /\ percpu_stats = [ c \in CPUs |-> ZeroTitanStats ]
    /\ invs = [ i \in Invocations |-> IdleInvocation ]
    /\ snap = NoSnap
    /\ ldr = NoLoader

LoaderFrame ==
    UNCHANGED << loaded, phase, persona_config, tcp_config_map, titan_config_map,
                 titan_os_profiles, StatVars, PacketVars, percpu_stats, invs, snap >>

\* main: geteuid, signal(SIGINT), signal(SIGTERM), set_rlimit
Main_start ==
    /\ ldr.pc = "main"
    /\ \E root \in BOOLEAN, rlimit_ok \in BOOLEAN :
          ldr' = IF root /\ rlimit_ok
                 THEN [ ldr EXCEPT !.pc = "if_nametoindex" ]
                 ELSE [ ldr EXCEPT !.pc = "exited", !.status = 1 ]
    /\ LoaderFrame

\* load_xdp_program: ifindex = if_nametoindex(interface)
If_nametoindex ==
    /\ ldr.pc = "if_nametoindex"
    /\ \E x \in Interfaces \cup {0} :
          ldr' = IF x = 0 THEN LoadFailed([ ldr EXCEPT !.ifindex = 0 ])
                 ELSE [ ldr EXCEPT !.ifindex = x, !.pc = "open" ]
    /\ LoaderFrame

\* obj = bpf_object__open_file(XDP_OBJECT_PATH, NULL)
Open_file ==
    /\ ldr.pc = "open"
    /\ \E ok \in BOOLEAN :
          ldr' = IF ok THEN [ ldr EXCEPT !.obj = "ptr", !.object = "open", !.pc = "load" ]
                 ELSE LoadFailed([ ldr EXCEPT !.obj = "err" ])
    /\ LoaderFrame

\* err = bpf_object__load(obj)
Load_object ==
    /\ ldr.pc = "load"
    /\ \E ok \in BOOLEAN :
          ldr' = IF ok THEN [ ldr EXCEPT !.pc = "find_program" ]
                 ELSE LoadFailed([ ldr EXCEPT !.object = "closed" ])
    /\ LoaderFrame

\* prog = bpf_object__find_program_by_name(obj, "xdp_outbound_masking")
Find_program ==
    /\ ldr.pc = "find_program"
    /\ \E ok \in BOOLEAN :
          ldr' = IF ok THEN [ ldr EXCEPT !.pc = "attach" ]
                 ELSE LoadFailed([ ldr EXCEPT !.object = "closed" ])
    /\ LoaderFrame

\* err = bpf_set_link_xdp_fd(ifindex, prog_fd, xdp_flags), and on failure the
\* switch to XDP_FLAGS_SKB_MODE
Attach ==
    /\ ldr.pc = "attach"
    /\ \E ok \in BOOLEAN :
          ldr' = IF ok
                 THEN [ ldr EXCEPT !.attached = bpf_set_link_xdp_fd(@, 1, ldr.xdp_flags),
                                   !.attach_flags = ldr.xdp_flags,
                                   !.pc = "find_map" ]
                 ELSE IF ldr.xdp_flags = 0
                 THEN [ ldr EXCEPT !.xdp_flags = XDP_FLAGS_SKB_MODE, !.pc = "retry" ]
                 ELSE LoadFailed([ ldr EXCEPT !.object = "closed" ])
    /\ LoaderFrame

\* the second bpf_set_link_xdp_fd call and the test of err that follows it
Retry_attach ==
    /\ ldr.pc = "retry"
    /\ \E ok \in BOOLEAN :
          ldr' = IF ok
                 THEN [ ldr EXCEPT !.attached = bpf_set_link_xdp_fd(@, 1, ldr.xdp_flags),
                                   !.attach_flags = ldr.xdp_flags,
                                   !.pc = "find_map" ]
                 ELSE LoadFailed([ ldr EXCEPT !.object = "closed" ])
    /\ LoaderFrame

\* stats_map = bpf_object__find_map_by_name(obj, STATS_MAP_NAME), then the reset
\* of the counters and return 0
Find_stats_map ==
    /\ ldr.pc = "find_map"
    /\ \E found \in BOOLEAN :
          ldr' = IF found THEN [ ldr EXCEPT !.pc = "monitor" ] ELSE LoadFailed(ldr)
    /\ LoaderFrame

\* monitor_loop: while (running)
Monitor_test ==
    /\ ldr.pc = "monitor"
    /\ ldr' = [ ldr EXCEPT !.pc = IF ldr.running THEN "sleep" ELSE "detach" ]
    /\ LoaderFrame

\* monitor_loop: sleep(5); print_stats();
Sleep_print ==
    /\ ldr.pc = "sleep"
    /\ ldr' = [ ldr EXCEPT !.pc = "monitor" ]
    /\ LoaderFrame

\* main: detach_xdp_program(); return 0
Detach ==
    /\ ldr.pc = "detach"
    /\ ldr' = [ detach_xdp_program(ldr) EXCEPT !.pc = "exited", !.status = 0 ]
    /\ LoaderFrame

\* SIGINT or SIGTERM is delivered: sig_handler sets running = false
Signal ==
    /\ ldr.pc \notin { "main", "exited" }
    /\ ldr.signals < MaxSignals
    /\ ldr' = [ ldr EXCEPT !.running = FALSE, !.signals = @ + 1 ]
    /\ LoaderFrame

LoaderStep ==
    \/ Main_start
    \/ If_nametoindex
    \/ Open_file
    \/ Load_object
    \/ Find_program
    \/ Attach
    \/ Retry_attach
    \/ Find_stats_map
    \/ Monitor_test
    \/ Sleep_print
    \/ Detach

LoaderNext == LoaderStep \/ Signal

\* the process keeps running: sleep returns, main goes on to its next statement
LoaderSpec == LoaderInit /\ [][LoaderNext]_vars /\ WF_vars(LoaderStep)

(***************************************************************************)
(* Vocabulary of the properties.                                           *)
(***************************************************************************)
Last == IF hist = << >> THEN "none" ELSE hist[Len(hist)]

IsIPv4(p) == Len(p) >= IPH + SIZEOF_IPHDR /\ BE16(p, OFF_H_PROTO) = ETH_P_IP
IsTcp(p) == IsIPv4(p) /\ At(p, OFF_PROTOCOL) = IPPROTO_TCP

\* an IPv4/TCP frame held whole by the buffer, with the checksums of the sender
WellFormedTcp(p) ==
    /\ IsTcp(p)
    /\ ihl(p) >= 5
    /\ Len(p) >= TCPH(p) + SIZEOF_TCPHDR
    /\ doff(p, TCPH(p)) >= 5
    /\ Len(p) >= TCPH(p) + doff(p, TCPH(p)) * 4
    /\ BE16(p, OFF_TOT_LEN) = Len(p) - ETH_HLEN
    /\ IpCheckValid(p)
    /\ TcpCheckValid(p)

IsSyn(p) == syn(p, TCPH(p)) /\ ~ack(p, TCPH(p))
Window(p) == BE16(p, TCPH(p) + 14)
HasOptions(p) == doff(p, TCPH(p)) > 5
NoPayload(p) == Len(p) = TCPH(p) + doff(p, TCPH(p)) * 4
IpHeaderOffsets(p) == { o \in Rng(IPH, ihl(p) * 4) : o < Len(p) }
OptionsRegion(p) == Rng(TCPH(p) + 20, doff(p, TCPH(p)) * 4 - 20)

(***************************************************************************)
(* C1: after network_shield_xdp has rewritten a well-formed IPv4/TCP SYN   *)
(* packet (any IHL, any persona), the stored IPv4 header checksum equals   *)
(* the full recompute over the final IHL*4 header bytes.                   *)
(***************************************************************************)
C1_IpChecksumMatchesFullRecompute ==
    (hist = << "network_shield_xdp" >> /\ WellFormedTcp(pkt_in) /\ IsSyn(pkt_in))
        => BE16(pkt, OFF_IP_CHECK) = RefIpCheck(pkt)

(***************************************************************************)
(* C2: when titan_tc_egress rewrites the TTL, the IPv4 checksum left by    *)
(* bpf_l3_csum_replace and the TTL store equals the full recompute over    *)
(* the final IPv4 header.                                                  *)
(***************************************************************************)
C2_EgressTtlChecksumMatchesFullRecompute ==
    (Last = "titan_tc_egress" /\ WellFormedTcp(prev)
       /\ At(prev, OFF_TTL) # At(pkt, OFF_TTL))
        => BE16(pkt, OFF_IP_CHECK) = RefIpCheck(pkt)

(***************************************************************************)
(* C3: when network_shield_xdp rewrites the window of a packet whose TCP   *)
(* checksum was valid, the checksum left by update_tcp_checksum equals the *)
(* full recompute over the pseudo-header and the whole final segment.      *)
(***************************************************************************)
C3_WindowRewriteKeepsTcpChecksum ==
    (Last = "network_shield_xdp" /\ WellFormedTcp(prev)
       /\ Window(prev) # Window(pkt))
        => BE16(pkt, TCPH(pkt) + 16) = RefTcpCheck(pkt)

C3_Witness ==
    /\ Last = "network_shield_xdp" /\ WellFormedTcp(prev)
    /\ Window(prev) = 36336 /\ Window(pkt) = 29200
    /\ Len(pkt) > TCPH(pkt) + SIZEOF_TCPHDR

(***************************************************************************)
(* C4: after tcp_fingerprint_xdp has changed the window, the MSS option or *)
(* the timestamp option of a packet with options and no payload, the       *)
(* stored TCP checksum equals the full recompute over the pseudo-header    *)
(* and the whole TCP header, options included.                             *)
(***************************************************************************)
C4_FingerprintXdpTcpChecksumValid ==
    (Last = "tcp_fingerprint_xdp" /\ WellFormedTcp(prev)
       /\ HasOptions(prev) /\ NoPayload(prev)
       /\ \E o \in Rng(TCPH(prev) + 14, 2) \cup OptionsRegion(prev) :
              At(prev, o) # At(pkt, o))
        => BE16(pkt, TCPH(pkt) + 16) = RefTcpCheck(pkt)

(***************************************************************************)
(* C5: a packet that xdp_outbound_masking or tcp_fingerprint_tc passes on  *)
(* after rewriting the TTL carries a valid IPv4 header checksum.           *)
(***************************************************************************)
C5_TtlRewritePassesValidIpChecksum ==
    (Last \in { "xdp_outbound_masking", "tcp_fingerprint_tc" }
       /\ WellFormedTcp(prev) /\ At(prev, OFF_TTL) # At(pkt, OFF_TTL))
        => IpCheckValid(pkt)

(***************************************************************************)
(* C6: when network_shield_xdp, network_shield_tc or tcp_fingerprint_xdp   *)
(* rewrites the TTL, the only IPv4 header bytes that differ between input  *)
(* and output are the TTL byte and the two checksum bytes.                 *)
(***************************************************************************)
C6_TtlRewriteIsLocal ==
    (Last \in { "network_shield_xdp", "network_shield_tc", "tcp_fingerprint_xdp" }
       /\ IsIPv4(prev) /\ At(prev, OFF_TTL) # At(pkt, OFF_TTL))
        => \A o \in IpHeaderOffsets(prev) :
               At(prev, o) # At(pkt, o)
                   => o \in { OFF_TTL, OFF_IP_CHECK, OFF_IP_CHECK + 1 }

C6_Witness ==
    /\ Last = "tcp_fingerprint_xdp" /\ IsIPv4(prev) /\ ihl(prev) = 6
    /\ At(prev, OFF_TTL) = 64 /\ At(pkt, OFF_TTL) = 128
    /\ BE16(prev, OFF_IP_CHECK) # BE16(pkt, OFF_IP_CHECK)

(***************************************************************************)
(* C7: a second run of network_shield_xdp or tcp_fingerprint_xdp, with the *)
(* same configuration, on the output of the first run over a SYN packet    *)
(* changes no byte and leaves the checksums valid.                         *)
(***************************************************************************)
C7_SecondRunIsIdempotent ==
    (hist \in { << "network_shield_xdp", "network_shield_xdp" >>,
                << "tcp_fingerprint_xdp", "tcp_fingerprint_xdp" >> }
       /\ WellFormedTcp(pkt_in) /\ IsSyn(pkt_in))
        => (pkt = prev /\ IpCheckValid(pkt) /\ TcpCheckValid(pkt))

(***************************************************************************)
(* C8: on a buffer shorter than Ethernet + 20-byte IPv4 header, and on a   *)
(* frame whose Ethertype is not IPv4, each packet program returns pass,    *)
(* leaves the buffer unchanged and reads no byte at or beyond data_end.    *)
(***************************************************************************)
C8_ShortOrForeignFramePassesUntouched ==
    (Last \in { "network_shield_xdp", "tcp_fingerprint_xdp", "titan_tc_egress",
                "xdp_outbound_masking" }
       /\ (Len(prev) < ETH_HLEN + SIZEOF_IPHDR \/ BE16(prev, OFF_H_PROTO) # ETH_P_IP))
        => /\ ret = (IF Last = "titan_tc_egress" THEN TC_ACT_OK ELSE XDP_PASS)
           /\ pkt = prev
           /\ \A o \in reads : o < Len(prev)

C8_Witness ==
    /\ Last = "xdp_outbound_masking"
    /\ Len(prev) >= ETH_HLEN + SIZEOF_IPHDR + SIZEOF_TCPHDR
    /\ BE16(prev, OFF_H_PROTO) # ETH_P_IP
    /\ reads = Rng(OFF_H_PROTO, 2)

(***************************************************************************)
(* C9: when an IPv4/TCP packet is too short to hold the 20-byte TCP header *)
(* at the offset given by IHL, network_shield_xdp and titan_tc_egress pass *)
(* it with every byte unchanged.                                           *)
(***************************************************************************)
C9_TruncatedTcpPassesUnchanged ==
    (Last \in { "network_shield_xdp", "titan_tc_egress" }
       /\ IsTcp(prev) /\ TCPH(prev) + SIZEOF_TCPHDR > Len(prev))
        => pkt = prev

(***************************************************************************)
(* C10: during the option walks of tcp_fingerprint_xdp and titan_tc_egress *)
(* every byte read or written lies inside the declared options region      *)
(* [TCP header + 20, TCP header + doff*4) and below data_end.              *)
(***************************************************************************)
C10_OptionWalkStaysInRegion ==
    (Last \in { "tcp_fingerprint_xdp", "titan_tc_egress" })
        => \A o \in walk.acc : o \in OptionsRegion(prev) /\ o < Len(prev)

\* index, inside the options region, of the first option of kind k met by a
\* walk over well-formed options from index i; -1 when there is none
RECURSIVE FirstOption(_, _, _)
FirstOption(p, k, i) ==
    LET optlen == doff(p, TCPH(p)) * 4 - 20
        o      == TCPH(p) + 20 + i
    IN  IF i >= optlen THEN -1
        ELSE IF At(p, o) = 0 THEN -1
        ELSE IF At(p, o) = 1 THEN FirstOption(p, k, i + 1)
        ELSE IF i + 1 >= optlen THEN -1
        ELSE IF At(p, o + 1) < 2 \/ i + At(p, o + 1) > optlen THEN -1
        ELSE IF At(p, o) = k THEN i
        ELSE FirstOption(p, k, i + At(p, o + 1))

\* the 16-bit value of the first MSS option (kind 2, length 4) of p, read in q
HasMss(p) == FirstOption(p, 2, 0) # -1 /\ At(p, TCPH(p) + 20 + FirstOption(p, 2, 0) + 1) = 4
MssOf(p, q) == BE16(q, TCPH(p) + 20 + FirstOption(p, 2, 0) + 2)
Max(a, b) == IF a >= b THEN a ELSE b

(***************************************************************************)
(* C11: the option walks of titan_tc_egress and tcp_fingerprint_xdp end    *)
(* within 40 loop iterations on every input, a region of 40 No-Op bytes    *)
(* and option kinds that never encode End-Of-List included.                *)
(***************************************************************************)
C11_OptionWalkWithin40Iterations ==
    (Last \in { "tcp_fingerprint_xdp", "titan_tc_egress" }) => walk.iters <= 40

C11_Witness ==
    /\ Last = "tcp_fingerprint_xdp" /\ WellFormedTcp(prev)
    /\ doff(prev, TCPH(prev)) = 15
    /\ \A o \in OptionsRegion(prev) : At(prev, o) = 1
    /\ walk.iters = 40

(***************************************************************************)
(* C12: tcp_fingerprint_xdp with a configured mss M > 0 leaves max(v, M)   *)
(* in the first MSS option (value v) of a packet with SYN set, and leaves  *)
(* the MSS option bytes of a packet without SYN unchanged.                 *)
(***************************************************************************)
C12_MssRaisedOnSynOnly ==
    (Last = "tcp_fingerprint_xdp" /\ WellFormedTcp(prev) /\ HasOptions(prev)
       /\ HasMss(prev)
       /\ tcp_config_map # << >> /\ tcp_config_map[0].mss > 0)
        => IF syn(prev, TCPH(prev))
           THEN MssOf(prev, pkt) = Max(MssOf(prev, prev), tcp_config_map[0].mss)
           ELSE MssOf(prev, pkt) = MssOf(prev, prev)

C12_Witness ==
    /\ Last = "tcp_fingerprint_xdp" /\ WellFormedTcp(prev) /\ HasOptions(prev)
    /\ HasMss(prev) /\ IsSyn(prev)
    /\ tcp_config_map # << >> /\ tcp_config_map[0].mss = 1460
    /\ MssOf(prev, prev) = 1400 /\ MssOf(prev, pkt) = 1460

(***************************************************************************)
(* C13: on every SYN packet and for every profile, the MSS option value    *)
(* titan_tc_egress leaves is greater than or equal to the value on input.  *)
(***************************************************************************)
C13_EgressNeverLowersMss ==
    (Last = "titan_tc_egress" /\ WellFormedTcp(prev) /\ HasOptions(prev)
       /\ HasMss(prev) /\ syn(prev, TCPH(prev)))
        => MssOf(prev, pkt) >= MssOf(prev, prev)

(***************************************************************************)
(* C14: with an os_profile index outside the 4-entry table, titan_tc_egress*)
(* falls back to a profile of the table and rewrites the packet with it:   *)
(* the SYN leaves with the TTL and the window of that profile.             *)
(***************************************************************************)
C14_OutOfRangeProfileFallsBack ==
    (Last = "titan_tc_egress" /\ WellFormedTcp(prev) /\ IsSyn(prev)
       /\ titan_config_map[0].tcp_fingerprint_enabled = 1
       /\ titan_config_map[0].os_profile \notin 0..(OS_PROFILE_ENTRIES - 1))
        => \E k \in DOMAIN titan_os_profiles :
               /\ At(pkt, OFF_TTL) = titan_os_profiles[k].ttl
               /\ Window(pkt) = titan_os_profiles[k].window_size

(***************************************************************************)
(* C15: in network_shield_xdp and network_shield_tc the index into the     *)
(* signatures table is in 0..2 for every value stored in persona_config    *)
(* and on a lookup miss; a value above 2 or a miss selects the Linux       *)
(* signature (TTL 64, window 29200); every IPv4 packet of at least 34      *)
(* bytes leaves with the TTL of the selected signature.                    *)
(***************************************************************************)
SelectedPersona ==
    IF 0 \notin DOMAIN persona_config THEN PERSONA_LINUX
    ELSE IF persona_config[0] > 2 THEN PERSONA_LINUX
    ELSE persona_config[0]

C15_PersonaIndexClamped ==
    (Last \in { "network_shield_xdp", "network_shield_tc" } /\ IsIPv4(prev))
        => /\ SelectedPersona \in 0..2
           /\ SelectedPersona + 1 \in DOMAIN signatures
           /\ At(pkt, OFF_TTL) = signatures[SelectedPersona + 1].ttl
           /\ (0 \notin DOMAIN persona_config \/ persona_config[0] > 2)
                => /\ At(pkt, OFF_TTL) = 64
                   /\ (Last = "network_shield_xdp" /\ WellFormedTcp(prev)
                         /\ IsSyn(prev)) => Window(pkt) = 29200

C15_Witness ==
    /\ Last = "network_shield_xdp" /\ WellFormedTcp(prev) /\ IsSyn(prev)
    /\ persona_config[0] = 2147483647
    /\ At(prev, OFF_TTL) = 128 /\ At(pkt, OFF_TTL) = 64
    /\ Window(prev) = 65535 /\ Window(pkt) = 29200

(***************************************************************************)
(* C16: with no entry in tcp_config_map, tcp_fingerprint_xdp passes the    *)
(* IPv4/TCP packet with the built-in Windows profile applied: TTL 128,     *)
(* window 65535 if SYN is set and ACK unset (the window is kept otherwise),*)
(* and the checksums recomputed (valid on a packet without IPv4 options,   *)
(* TCP options or payload, the bytes the recompute sums).                  *)
(***************************************************************************)
C16_NoConfigAppliesWindowsProfile ==
    (Last = "tcp_fingerprint_xdp" /\ tcp_config_map = << >>
       /\ IsTcp(prev) /\ TCPH(prev) + SIZEOF_TCPHDR <= Len(prev))
        => /\ ret = XDP_PASS
           /\ At(pkt, OFF_TTL) = 128
           /\ Window(pkt) = (IF IsSyn(prev) THEN 65535 ELSE Window(prev))
           /\ \A o \in DOMAIN prev :
                  prev[o] # pkt[o]
                      => o - 1 \in { OFF_TTL } \cup Rng(OFF_IP_CHECK, 2)
                                     \cup Rng(TCPH(prev) + 14, 4)
           /\ (WellFormedTcp(prev) /\ ihl(prev) = 5 /\ ~HasOptions(prev)
                 /\ NoPayload(prev)) => (IpCheckValid(pkt) /\ TcpCheckValid(pkt))

C16_Witness ==
    /\ Last = "tcp_fingerprint_xdp" /\ tcp_config_map = << >>
    /\ WellFormedTcp(prev) /\ IsSyn(prev) /\ ihl(prev) = 5
    /\ ~HasOptions(prev) /\ NoPayload(prev)
    /\ At(prev, OFF_TTL) = 64 /\ At(pkt, OFF_TTL) = 128
    /\ Window(prev) = 8192 /\ Window(pkt) = 65535
    /\ IpCheckValid(pkt) /\ TcpCheckValid(pkt)

(***************************************************************************)
(* C17: network_shield_xdp, tcp_fingerprint_xdp, tcp_fingerprint_tc and    *)
(* titan_tc_egress change the window field only if SYN is set and ACK is   *)
(* unset: a packet with ACK set, SYN-ACK included, keeps its window.       *)
(***************************************************************************)
C17_WindowRewrittenOnInitialSynOnly ==
    (Last \in { "network_shield_xdp", "tcp_fingerprint_xdp", "tcp_fingerprint_tc",
                "titan_tc_egress" }
       /\ WellFormedTcp(prev) /\ ~IsSyn(prev))
        => Window(pkt) = Window(prev)

(***************************************************************************)
(* C18: an IPv4 packet whose protocol is neither TCP nor UDP leaves        *)
(* network_shield_xdp, network_shield_tc and xdp_outbound_masking with     *)
(* every byte unchanged.                                                   *)
(***************************************************************************)
C18_OtherProtocolsPassUnchanged ==
    (Last \in { "network_shield_xdp", "network_shield_tc", "xdp_outbound_masking" }
       /\ IsIPv4(prev)
       /\ At(prev, OFF_PROTOCOL) \notin { IPPROTO_TCP, IPPROTO_UDP })
        => pkt = prev

(***************************************************************************)
(* C19: with timestamp_offset D # 0 the timestamp walk of                  *)
(* tcp_fingerprint_xdp replaces the TSval of the first kind-8 option it    *)
(* reaches by (TSval + D) mod 2^32, big-endian, and changes no other       *)
(* option byte (TSecr included); with D = 0 it changes no option byte.     *)
(* Stated on the runs in which the MSS walk does not act.                  *)
(***************************************************************************)
\* index of the first kind-8 option the walk reaches, -1 when it reaches none
RECURSIVE FirstTimestamp(_, _)
FirstTimestamp(p, i) ==
    LET optlen == doff(p, TCPH(p)) * 4 - 20
        o      == TCPH(p) + 20 + i
    IN  IF i >= optlen THEN -1
        ELSE IF At(p, o) = 0 THEN -1
        ELSE IF At(p, o) = 1 THEN FirstTimestamp(p, i + 1)
        ELSE IF At(p, o) = 8 /\ i + 9 < optlen THEN i
        ELSE IF i + 1 >= optlen THEN -1
        ELSE IF At(p, o + 1) < 2 THEN -1
        ELSE FirstTimestamp(p, i + At(p, o + 1))

TsvalOffsets(p) == Rng(TCPH(p) + 20 + FirstTimestamp(p, 0) + 2, 4)

\* (v + d) mod 2^32 on big-endian halves
TsvalPlus(p, d) ==
    LET o  == TCPH(p) + 20 + FirstTimestamp(p, 0) + 2
        lo == BE16(p, o + 2) + d[2]
        hi == BE16(p, o) + d[1] + lo \div W16
    IN  << hi % W16, lo % W16 >>

C19_TimestampOffsetAdded ==
    (Last = "tcp_fingerprint_xdp" /\ WellFormedTcp(prev) /\ HasOptions(prev)
       /\ tcp_config_map # << >>
       /\ (~syn(prev, TCPH(prev)) \/ tcp_config_map[0].mss = 0))
        => LET D == tcp_config_map[0].timestamp_offset
           IN  IF D # << 0, 0 >> /\ FirstTimestamp(prev, 0) # -1
               THEN /\ << BE16(pkt, TCPH(prev) + 20 + FirstTimestamp(prev, 0) + 2),
                          BE16(pkt, TCPH(prev) + 20 + FirstTimestamp(prev, 0) + 4) >>
                         = TsvalPlus(prev, D)
                    /\ \A o \in OptionsRegion(prev) \ TsvalOffsets(prev) :
                           At(pkt, o) = At(prev, o)
               ELSE \A o \in OptionsRegion(prev) : At(pkt, o) = At(prev, o)

C19_Witness ==
    /\ Last = "tcp_fingerprint_xdp" /\ WellFormedTcp(prev) /\ HasOptions(prev)
    /\ tcp_config_map # << >> /\ tcp_config_map[0].timestamp_offset = << 0, W16 - 1 >>
    /\ ~syn(prev, TCPH(prev))
    /\ FirstTimestamp(prev, 0) = 2
    /\ << BE16(prev, TCPH(prev) + 24), BE16(prev, TCPH(prev) + 26) >> = << 0, 9 >>
    /\ << BE16(pkt, TCPH(prev) + 24), BE16(pkt, TCPH(prev) + 26) >> = << 1, 8 >>

(***************************************************************************)
(* C20: when the packet invocations of a burst run concurrently and each   *)
(* has made its statistics update, the counter is exactly N higher, N the  *)
(* number of invocations: stats_map[0] of tcp_fingerprint_xdp, and         *)
(* titan_stats.packets_total (the sum of the per-CPU values) of            *)
(* network_shield_v6 update_stats.                                         *)
(***************************************************************************)
RECURSIVE SumTotals(_)
SumTotals(cs) ==
    IF cs = {} THEN 0
    ELSE LET c == CHOOSE x \in cs : TRUE
         IN  percpu_stats[c].packets_total + SumTotals(cs \ {c})

Completed == { i \in Invocations : invs[i].pc = "done" }

C22_NoStalePointerAfterHelper ==
    (Last = "titan_tc_egress") => ~walk.stale

(***************************************************************************)
(* C24: when titan_tc_egress rewrites the value of an MSS option or of a   *)
(* window-scale option, at an even or at an odd offset of the TCP header,  *)
(* a TCP checksum that was valid on input equals the full recompute on     *)
(* output.                                                                 *)
(***************************************************************************)
C24_EgressOptionRewriteKeepsTcpChecksum ==
    (Last = "titan_tc_egress" /\ WellFormedTcp(prev) /\ HasOptions(prev)
       /\ \E o \in OptionsRegion(prev) : At(prev, o) # At(pkt, o))
        => BE16(pkt, TCPH(pkt) + 16) = RefTcpCheck(pkt)

(***************************************************************************)
(* C28: after any sequence of network_shield_xdp invocations from zeroed   *)
(* counters, STATS_PACKETS_MODIFIED <= STATS_PACKETS_TOTAL and             *)
(* STATS_PACKETS_TCP + STATS_PACKETS_UDP <= STATS_PACKETS_TOTAL.           *)
(***************************************************************************)
C28_ModifiedAtMostTotal ==
    (\A k \in 1..Len(hist) : hist[k] = "network_shield_xdp")
        => /\ stats[STATS_PACKETS_MODIFIED] <= stats[STATS_PACKETS_TOTAL]
           /\ stats[STATS_PACKETS_TCP] + stats[STATS_PACKETS_UDP]
                  <= stats[STATS_PACKETS_TOTAL]

(***************************************************************************)
(* C23: in tcp_fingerprint_tc (the variant that overwrites the timestamp   *)
(* option) every byte the option walk reads or overwrites lies at or after *)
(* the start of the options of the TCP header located IHL*4 bytes after    *)
(* the start of the IPv4 header, for every IHL from 5 to 15.               *)
(***************************************************************************)
C23_LucidWalkLocatedByIhl ==
    (Last = "lucid_tcp_fingerprint_tc" /\ WellFormedTcp(prev))
        => \A o \in walk.acc : o >= TCPH(prev) + SIZEOF_TCPHDR

(***************************************************************************)
(* C25: for every data offset 0..15 and every option sequence the option   *)
(* walk of tcp_fingerprint_tc (the variant that overwrites the timestamp   *)
(* option) ends within 40 iterations and reads or writes only bytes of     *)
(* the options region [20, doff*4) of the TCP header.  Stated for IHL 5,   *)
(* where the program's tcph is the TCP header.                             *)
(***************************************************************************)
C25_LucidWalkBounded ==
    (Last = "lucid_tcp_fingerprint_tc" /\ IsTcp(prev) /\ ihl(prev) = 5
       /\ Len(prev) >= TCPH(prev) + SIZEOF_TCPHDR)
        => /\ walk.iters <= 40
           /\ walk.acc \subseteq OptionsRegion(prev)

(***************************************************************************)
(* C26: titan_xdp_filter never changes a packet byte, and it returns drop  *)
(* exactly when the packet is IPv4/UDP with a complete UDP header and      *)
(* either DNS protection is enabled, the destination port is 53 and the    *)
(* destination address is neither dns_server_1 nor dns_server_2, or        *)
(* WebRTC blocking is enabled and the source or the destination port is    *)
(* 3478 or 5349; in every other case it returns pass.                      *)
(***************************************************************************)
\* the four bytes, in packet order, of an address held as a __u32
AddrBytes(v) == << v[2] % 256, v[2] \div 256, v[1] % 256, v[1] \div 256 >>
DestAddr(p) == SubSeq(p, OFF_DADDR + 1, OFF_DADDR + 4)
UdpSport(p) == BE16(p, TCPH(p))
UdpDport(p) == BE16(p, TCPH(p) + 2)
StunPorts == { 3478, 5349 }

MustDrop(p, c) ==
    /\ IsIPv4(p)
    /\ At(p, OFF_PROTOCOL) = IPPROTO_UDP
    /\ Len(p) >= TCPH(p) + 8
    /\ \/ /\ c.dns_protection_enabled # 0
          /\ UdpDport(p) = 53
          /\ DestAddr(p) # AddrBytes(c.dns_server_1)
          /\ DestAddr(p) # AddrBytes(c.dns_server_2)
       \/ /\ c.webrtc_block_enabled # 0
          /\ (UdpSport(p) \in StunPorts \/ UdpDport(p) \in StunPorts)

C26_FilterDropsExactly ==
    (Last = "titan_xdp_filter")
        => /\ pkt = prev
           /\ ret \in { XDP_PASS, XDP_DROP }
           /\ (ret = XDP_DROP) <=> MustDrop(prev, titan_config_map[0])

C26_Witness ==
    /\ Last = "titan_xdp_filter"
    /\ ret = XDP_DROP
    /\ titan_config_map[0].dns_protection_enabled = 1
    /\ titan_config_map[0].webrtc_block_enabled = 0
    /\ AddrBytes(titan_config_map[0].dns_server_2) # DestAddr(prev)
    /\ ihl(prev) = 6

(***************************************************************************)
(* C27: one invocation of titan_xdp_filter increments packets_total at     *)
(* most once, and packets_blocked <= packets_total and                     *)
(* packets_quic <= packets_total hold on the statistics record.            *)
(***************************************************************************)
C27_FilterCountsPacketOnce ==
    (\A k \in 1..Len(hist) : hist[k] = "titan_xdp_filter")
        => /\ titan_stats_map.packets_total <= Len(hist)
           /\ titan_stats_map.packets_blocked <= titan_stats_map.packets_total
           /\ titan_stats_map.packets_quic <= titan_stats_map.packets_total

(***************************************************************************)
(* C21: while the control plane updates the record, the field values one   *)
(* invocation of titan_tc_egress or tcp_fingerprint_xdp applies (TTL,      *)
(* window size, MSS, window scale, timestamp offset) all come from one     *)
(* version of the record, never from a mix of two.                         *)
(***************************************************************************)
RecordVersions ==
    IF loaded = "network_shield_v6"
    THEN { UserProfiles[k] : k \in DOMAIN UserProfiles }
    ELSE TcpConfigs

InvocationDone == snap.pc = Len(FieldsOf(loaded)) + 1

C21_FieldsFromOneVersion ==
    InvocationDone
        => \E v \in RecordVersions :
              \A j \in 1..Len(FieldsOf(loaded)) :
                  snap.applied[j] = v[FieldsOf(loaded)[j]]

(***************************************************************************)
(* C29: whenever load_xdp_program returns failure and the loader exits, no *)
(* XDP program is left attached to the interface and the BPF object is not *)
(* left open, on every failure path.                                       *)
(***************************************************************************)
C29_FailedLoadLeavesNothingAttached ==
    (ldr.pc = "exited" /\ ldr.status = 1)
        => ldr.attached = "none" /\ ldr.object # "open"

(***************************************************************************)
(* C30: once the program is attached and the loader is in monitor_loop, a  *)
(* delivered SIGINT or SIGTERM is eventually followed by the end of the    *)
(* loop and the exit of the process, with exactly one detach call, made    *)
(* with the flags of the successful attach, the program no longer attached *)
(* and the BPF object closed.                                              *)
(***************************************************************************)
CleanExit ==
    /\ ldr.pc = "exited" /\ ldr.status = 0
    /\ ldr.detach_log = << ldr.attach_flags >>
    /\ ldr.attached = "none"
    /\ ldr.object = "closed" /\ ldr.obj = "NULL"

C30_SignalLeadsToCleanExit ==
    (ldr.pc \in { "monitor", "sleep" } /\ ~ldr.running) ~> CleanExit

C30_Witness ==
    /\ CleanExit
    /\ ldr.signals > 0
    /\ ldr.attach_flags = XDP_FLAGS_SKB_MODE

====
